---- MODULE Spec2Model ----
(***************************************************************************)
(* TWH intelligence platform: the ingestion-and-enrichment pipeline, its   *)
(* relational store and the entry paths that write to it (scheduled        *)
(* ingestion workflow, manual article submission, Slack link submission).  *)
(*                                                                         *)
(* Text is modelled as a sequence of one-character strings, so that        *)
(* toLowerCase() and trim() are computed and not assumed.  A table of the  *)
(* store is a sequence of rows; the id of a row is its position (rows are  *)
(* never deleted by the pipeline, gen_random_uuid() never repeats).        *)
(***************************************************************************)
EXTENDS Integers, Sequences, FiniteSets, Bags, TLC

VARIABLES db, feed, run, req, vp, trace, call, probe

vars == <<db, feed, run, req, vp, trace, call, probe>>

(***************************************************************************)
(* Bounds of the model.                                                    *)
(***************************************************************************)
\* ingestion runs that may be triggered (they may overlap)
NumRuns == 2
\* requests served by the manual-submission and Slack entry paths
NumRequests == 1
\* viewpoint runs that may be triggered
NumViewpointRuns == 2
\* direct calls of the persistence layer in the persistence-only spec
MaxCalls == 4
\* topic tags of one article
MaxTags == 3
\* organizations one extraction response names
MaxMentions == 2

Runs == 1..NumRuns
Requests == 1..NumRequests
ViewpointRuns == 1..NumViewpointRuns

(***************************************************************************)
(* Text.                                                                   *)
(***************************************************************************)
UpperChars == <<"A","B","C","D","E","F","G","H","I","J","K","L","M",
                "N","O","P","Q","R","S","T","U","V","W","X","Y","Z">>
LowerChars == <<"a","b","c","d","e","f","g","h","i","j","k","l","m",
                "n","o","p","q","r","s","t","u","v","w","x","y","z">>

\* String.prototype.toLowerCase on one character
LowerChar(c) ==
  IF \E i \in 1..Len(UpperChars) : UpperChars[i] = c
  THEN LowerChars[CHOOSE i \in 1..Len(UpperChars) : UpperChars[i] = c]
  ELSE c

\* String.prototype.toLowerCase
toLowerCase(s) == [i \in 1..Len(s) |-> LowerChar(s[i])]

IsSpace(c) == c = " "

\* String.prototype.trim: drops the leading and the trailing white space
trim(s) ==
  IF \A i \in 1..Len(s) : IsSpace(s[i]) THEN <<>>
  ELSE LET first == CHOOSE i \in 1..Len(s) :
                      ~IsSpace(s[i]) /\ \A j \in 1..(i-1) : IsSpace(s[j])
           last  == CHOOSE i \in 1..Len(s) :
                      ~IsSpace(s[i]) /\ \A j \in (i+1)..Len(s) : IsSpace(s[j])
       IN SubSeq(s, first, last)

\* canonical names
OracleHealth == <<"O","r","a","c","l","e"," ","H","e","a","l","t","h">>
Epic == <<"E","p","i","c">>
Microsoft == <<"M","i","c","r","o","s","o","f","t">>
HCA == <<"H","C","A">>
CommonSpirit == <<"C","o","m","m","o","n","S","p","i","r","i","t">>
ONC == <<"O","N","C">>
CMS == <<"C","M","S">>
FHIR == <<"F","H","I","R">>
HL7 == <<"H","L","7">>
EHR == <<"E","H","R">>
AI == <<"A","I">>

\* mentions as an extraction response may spell them
Cerner == <<"C","e","r","n","e","r">>
CernerCorporation == <<"C","e","r","n","e","r"," ","C","o","r","p","o","r","a","t","i","o","n">>
OracleCerner == <<"O","r","a","c","l","e"," ","C","e","r","n","e","r">>
FastHealthcareInteroperabilityResources ==
  <<"F","a","s","t"," ","H","e","a","l","t","h","c","a","r","e"," ",
    "I","n","t","e","r","o","p","e","r","a","b","i","l","i","t","y"," ",
    "R","e","s","o","u","r","c","e","s">>
JaneDoe == <<"J","a","n","e"," ","D","o","e">>

\* a JavaScript object used as a dictionary: the set of its key/value pairs
Has(dict, key) == \E e \in dict : e[1] = key
Get(dict, key) == (CHOOSE e \in dict : e[1] = key)[2]

ORGANIZATION_ALIASES ==
  { <<<<"c","e","r","n","e","r">>,
      OracleHealth>>,
    <<<<"c","e","r","n","e","r"," ","c","o","r","p","o","r","a","t","i","o",
        "n">>,
      OracleHealth>>,
    <<<<"o","r","a","c","l","e"," ","c","e","r","n","e","r">>,
      OracleHealth>>,
    <<<<"e","p","i","c"," ","s","y","s","t","e","m","s">>,
      Epic>>,
    <<<<"e","p","i","c"," ","s","y","s","t","e","m","s"," ","c","o","r","p",
        "o","r","a","t","i","o","n">>,
      Epic>>,
    <<<<"m","i","c","r","o","s","o","f","t"," ","c","o","r","p","o","r","a",
        "t","i","o","n">>,
      Microsoft>>,
    <<<<"h","c","a"," ","h","e","a","l","t","h","c","a","r","e">>,
      HCA>>,
    <<<<"c","o","m","m","o","n","s","p","i","r","i","t"," ","h","e","a","l",
        "t","h">>,
      CommonSpirit>>,
    <<<<"o","f","f","i","c","e"," ","o","f"," ","t","h","e"," ","n","a","t",
        "i","o","n","a","l"," ","c","o","o","r","d","i","n","a","t","o","r">>,
      ONC>>,
    <<<<"c","e","n","t","e","r","s"," ","f","o","r"," ","m","e","d","i","c",
        "a","r","e"," ","a","n","d"," ","m","e","d","i","c","a","i","d"," ",
        "s","e","r","v","i","c","e","s">>,
      CMS>> }

TECHNOLOGY_ALIASES ==
  { <<<<"f","a","s","t"," ","h","e","a","l","t","h","c","a","r","e"," ","i",
        "n","t","e","r","o","p","e","r","a","b","i","l","i","t","y"," ","r",
        "e","s","o","u","r","c","e","s">>,
      FHIR>>,
    <<<<"h","e","a","l","t","h"," ","l","e","v","e","l"," ","s","e","v","e",
        "n">>,
      HL7>>,
    <<<<"e","l","e","c","t","r","o","n","i","c"," ","h","e","a","l","t","h",
        " ","r","e","c","o","r","d">>,
      EHR>>,
    <<<<"a","r","t","i","f","i","c","i","a","l"," ","i","n","t","e","l","l",
        "i","g","e","n","c","e">>,
      AI>> }

\* `ALIASES[name.toLowerCase().trim()] || name`
LookupMutNoLower(dict, name) ==
  IF Has(dict, trim(name)) THEN Get(dict, trim(name)) ELSE name

\* The members an object literal inherits from Object.prototype under a name
\* that is all lower case (no other name can equal a lower-cased mention),
\* each with the text its value (a function, an object) reads as.
InheritedAliases ==
  { <<<<"c","o","n","s","t","r","u","c","t","o","r">>,
      <<"f","u","n","c","t","i","o","n"," ","O","b","j","e","c","t","(",")"," ","{">>
        \o <<" ","[","n","a","t","i","v","e"," ","c","o","d","e","]"," ","}">>>>,
    <<<<"_","_","p","r","o","t","o","_","_">>,
      <<"[","o","b","j","e","c","t"," ","O","b","j","e","c","t","]">>>> }

\* `ALIASES[name.toLowerCase().trim()] || name`: the own property of the
\* table, else the inherited one, else the name
Lookup(dict, name) ==
  LET lowerName == trim(toLowerCase(name))
  IN IF Has(dict, lowerName) THEN Get(dict, lowerName)
     ELSE IF Has(InheritedAliases, lowerName) THEN Get(InheritedAliases, lowerName)
     ELSE name


(***************************************************************************)
(* The relational store.                                                   *)
(***************************************************************************)
\* crypto.createHash("md5").update(content).digest("hex")
Md5(content) == <<"md5", content>>

\* rank of a processing_status along scraped -> extracted -> summarized -> reviewed
StatusRank(status) ==
  CASE status = "scraped" -> 1
    [] status = "extracted" -> 2
    [] status = "summarized" -> 3
    [] status = "reviewed" -> 4

\* the first of the rows a query selects, 0 (no row) when it selects none:
\* result.rows[0]?.id
FirstRow(ids) ==
  IF ids = {} THEN 0 ELSE CHOOSE i \in ids : \A j \in ids : i <= j

Max0(n) == IF n < 0 THEN 0 ELSE n

\* seedDefaultSources (two of the five seeded rows, one of each fetch strategy)
SeedSources ==
  << [name |-> "Healthcare IT News", type |-> "rss", priority |-> "high", enabled |-> TRUE],
     [name |-> "CHIME Central", type |-> "scrape", priority |-> "medium", enabled |-> TRUE] >>

\* seedDefaultPersonas
SeedPersonas ==
  << [slug |-> "bill-russell", enabled |-> TRUE],
     [slug |-> "drex-deford", enabled |-> TRUE],
     [slug |-> "sarah-richardson", enabled |-> TRUE],
     [slug |-> "newsday", enabled |-> TRUE] >>

\* the schema of initializeDatabase with its seed rows
EmptyDb ==
  [ sources |-> SeedSources,
    articles |-> <<>>,
    organizations |-> <<>>,
    people |-> <<>>,
    technologies |-> <<>>,
    article_organizations |-> <<>>,
    article_people |-> <<>>,
    article_technologies |-> <<>>,
    summaries |-> <<>>,
    personas |-> SeedPersonas,
    viewpoints |-> <<>> ]

checkArticleExistsMutAnd(d, contentHash, url) ==
  LET rows == { i \in 1..Len(d.articles) :
                  d.articles[i].contentHash = contentHash /\ d.articles[i].url = url }
  IN [exists |-> Cardinality(rows) > 0, articleId |-> FirstRow(rows)]

\* SELECT id FROM articles WHERE content_hash = $1 OR url = $2
checkArticleExists(d, contentHash, url) ==
  LET rows == { i \in 1..Len(d.articles) :
                  d.articles[i].contentHash = contentHash \/ d.articles[i].url = url }
  IN [exists |-> Cardinality(rows) > 0, articleId |-> FirstRow(rows)]

ArticleIdByUrl(d, url) ==
  FirstRow({ i \in 1..Len(d.articles) : d.articles[i].url = url })

NewArticleRow(a) ==
  [ url |-> a.url, title |-> a.title, content |-> a.content,
    contentHash |-> a.contentHash, sourceId |-> a.sourceId, author |-> a.author,
    status |-> "scraped" ]

saveArticleMutOverwriteRow(d, a) ==
  LET id == ArticleIdByUrl(d, a.url)
  IN IF id # 0 THEN [d EXCEPT !.articles[id] = NewArticleRow(a)]
     ELSE [d EXCEPT !.articles = Append(@, NewArticleRow(a))]

saveArticleMutAlwaysInsert(d, a) ==
  [d EXCEPT !.articles = Append(@, NewArticleRow(a))]

\* INSERT INTO articles ... ON CONFLICT (url) DO UPDATE SET title, raw_content, content_hash
saveArticle(d, a) ==
  LET id == ArticleIdByUrl(d, a.url)
  IN IF id # 0
     THEN [d EXCEPT !.articles[id].title = a.title,
                    !.articles[id].content = a.content,
                    !.articles[id].contentHash = a.contentHash]
     ELSE [d EXCEPT !.articles = Append(@, NewArticleRow(a))]

OrganizationId(d, canonicalName) ==
  FirstRow({ i \in 1..Len(d.organizations) :
               d.organizations[i].canonicalName = canonicalName })

TechnologyId(d, name) ==
  FirstRow({ i \in 1..Len(d.technologies) : d.technologies[i].name = name })

\* INSERT INTO organizations ... ON CONFLICT (canonical_name) DO UPDATE SET updated_at
UpsertOrganization(d, org) ==
  IF OrganizationId(d, org.canonicalName) # 0 THEN d
  ELSE [d EXCEPT !.organizations =
          Append(@, [canonicalName |-> org.canonicalName, type |-> org.type])]

LinkMutAlwaysInsert(table, articleId, entityId, confidence) ==
  Append(table, [articleId |-> articleId, entityId |-> entityId, confidence |-> confidence])

\* INSERT INTO article_<entity> ... ON CONFLICT (article_id, <entity>_id) DO NOTHING
Link(table, articleId, entityId, confidence) ==
  IF \E i \in 1..Len(table) : table[i].articleId = articleId /\ table[i].entityId = entityId
  THEN table
  ELSE Append(table, [articleId |-> articleId, entityId |-> entityId,
                      confidence |-> confidence])

\* The loops of saveEntities.  `budget` is the number of write statements the
\* datastore still executes before one of them fails (each statement is its
\* own transaction); a loop stops where the budget is used up.
RECURSIVE SaveOrganizations(_, _, _, _)
SaveOrganizations(d, articleId, organizations, budget) ==
  IF organizations = <<>> \/ budget = 0 THEN d
  ELSE LET org == Head(organizations)
           d1 == UpsertOrganization(d, org)
           orgId == OrganizationId(d1, org.canonicalName)
           d2 == IF budget >= 2 /\ orgId # 0 /\ articleId # 0
                 THEN [d1 EXCEPT !.article_organizations =
                         Link(@, articleId, orgId, org.confidence)]
                 ELSE d1
       IN SaveOrganizations(d2, articleId, Tail(organizations), Max0(budget - 2))

\* INSERT INTO people (name, title, organization_id) ... ON CONFLICT DO NOTHING RETURNING id:
\* the table has no unique constraint but its generated primary key, so no
\* insert ever conflicts, a row is always inserted and its id returned
InsertPerson(d, person) ==
  [d EXCEPT !.people =
     Append(@, [name |-> person.name,
                organizationId |-> IF person.organization # <<>>
                                   THEN OrganizationId(d, person.organization)
                                   ELSE 0])]

RECURSIVE SavePeople(_, _, _, _)
SavePeople(d, articleId, people, budget) ==
  IF people = <<>> \/ budget = 0 THEN d
  ELSE LET person == Head(people)
           d1 == InsertPerson(d, person)
           personId == Len(d1.people)
           d2 == IF budget >= 2 /\ articleId # 0
                 THEN [d1 EXCEPT !.article_people =
                         Link(@, articleId, personId, person.confidence)]
                 ELSE d1
       IN SavePeople(d2, articleId, Tail(people), Max0(budget - 2))

\* INSERT INTO technologies (name, category, vendor_id) ... ON CONFLICT (name) DO UPDATE SET updated_at
UpsertTechnology(d, tech) ==
  IF TechnologyId(d, tech.canonicalName) # 0 THEN d
  ELSE [d EXCEPT !.technologies =
          Append(@, [name |-> tech.canonicalName, category |-> tech.category,
                     vendorId |-> IF tech.vendor # <<>>
                                  THEN OrganizationId(d, tech.vendor) ELSE 0])]

RECURSIVE SaveTechnologies(_, _, _, _)
SaveTechnologies(d, articleId, technologies, budget) ==
  IF technologies = <<>> \/ budget = 0 THEN d
  ELSE LET tech == Head(technologies)
           d1 == UpsertTechnology(d, tech)
           techId == TechnologyId(d1, tech.canonicalName)
           d2 == IF budget >= 2 /\ techId # 0 /\ articleId # 0
                 THEN [d1 EXCEPT !.article_technologies =
                         Link(@, articleId, techId, tech.confidence)]
                 ELSE d1
       IN SaveTechnologies(d2, articleId, Tail(technologies), Max0(budget - 2))

\* UPDATE articles SET processing_status = $1 WHERE id = $2
SetStatus(d, articleId, status) ==
  IF articleId \in 1..Len(d.articles)
  THEN [d EXCEPT !.articles[articleId].status = status]
  ELSE d

\* the write statements a complete saveEntities call executes
EntityStatements(organizations, people, technologies) ==
  2 * Len(organizations) + 2 * Len(people) + 2 * Len(technologies) + 1

\* Statement k of a saveEntities call executed on its own, as it is when the
\* statements of another call run between those of this one: the insert of
\* an entity (odd k) returns the id of its row, the insert of the junction
\* row (even k) uses the id the insert before it returned; the last
\* statement sets the status.
EntityStatement(d, articleId, organizations, people, technologies, k, returned) ==
  LET o == 2 * Len(organizations)
      p == o + 2 * Len(people)
      t == p + 2 * Len(technologies)
      linked == returned # 0 /\ articleId # 0
  IN IF k <= o
     THEN LET org == organizations[(k + 1) \div 2]
              d1 == UpsertOrganization(d, org)
          IN IF k % 2 = 1
             THEN [db |-> d1, returned |-> OrganizationId(d1, org.canonicalName)]
             ELSE [db |-> IF linked
                          THEN [d EXCEPT !.article_organizations =
                                  Link(@, articleId, returned, org.confidence)]
                          ELSE d,
                   returned |-> 0]
     ELSE IF k <= p
     THEN LET person == people[(k - o + 1) \div 2]
              d1 == InsertPerson(d, person)
          IN IF (k - o) % 2 = 1
             THEN [db |-> d1, returned |-> Len(d1.people)]
             ELSE [db |-> IF linked
                          THEN [d EXCEPT !.article_people =
                                  Link(@, articleId, returned, person.confidence)]
                          ELSE d,
                   returned |-> 0]
     ELSE IF k <= t
     THEN LET tech == technologies[(k - p + 1) \div 2]
              d1 == UpsertTechnology(d, tech)
          IN IF (k - p) % 2 = 1
             THEN [db |-> d1, returned |-> TechnologyId(d1, tech.canonicalName)]
             ELSE [db |-> IF linked
                          THEN [d EXCEPT !.article_technologies =
                                  Link(@, articleId, returned, tech.confidence)]
                          ELSE d,
                   returned |-> 0]
     ELSE [db |-> SetStatus(d, articleId, "extracted"), returned |-> 0]

\* saveEntities: the store it leaves and whether it threw
saveEntities(d, articleId, organizations, people, technologies, budget) ==
  LET b2 == Max0(budget - 2 * Len(organizations))
      b3 == Max0(b2 - 2 * Len(people))
      b4 == Max0(b3 - 2 * Len(technologies))
      d1 == SaveOrganizations(d, articleId, organizations, budget)
      d2 == SavePeople(d1, articleId, people, b2)
      d3 == SaveTechnologies(d2, articleId, technologies, b3)
      d4 == IF b4 >= 1 THEN SetStatus(d3, articleId, "extracted") ELSE d3
  IN [db |-> d4, threw |-> budget < EntityStatements(organizations, people, technologies)]

SummaryId(d, articleId) ==
  FirstRow({ i \in 1..Len(d.summaries) : d.summaries[i].articleId = articleId })

\* INSERT INTO summaries ... ON CONFLICT (article_id) DO UPDATE SET ...
UpsertSummary(d, articleId, summary, tags, relevanceScore) ==
  LET row == [articleId |-> articleId, shortSummary |-> summary, topicTags |-> tags,
              relevanceScore |-> relevanceScore]
      id == SummaryId(d, articleId)
  IN IF id # 0 THEN [d EXCEPT !.summaries[id] = row]
     ELSE [d EXCEPT !.summaries = Append(@, row)]

\* the insert into summaries is refused by the table's CHECK (relevance_score
\* >= 1 AND relevance_score <= 10) and by the article_id foreign key
SummaryAccepted(d, articleId, relevanceScore) ==
  relevanceScore \in 1..10 /\ articleId \in 1..Len(d.articles)

\* saveSummary: the store it leaves and whether it threw
saveSummary(d, articleId, summary, tags, relevanceScore, budget) ==
  LET accepted == SummaryAccepted(d, articleId, relevanceScore)
      d1 == IF budget >= 1 /\ accepted
            THEN UpsertSummary(d, articleId, summary, tags, relevanceScore) ELSE d
      d2 == IF budget >= 2 /\ accepted THEN SetStatus(d1, articleId, "summarized") ELSE d1
  IN [db |-> d2, threw |-> budget < 2 \/ ~accepted]

\* databaseTool, operation "saveSummary": its own copy of the two statements of
\* saveSummary, given context.data as the agent filled it in.  A relevanceScore
\* left out is bound as NULL, which the CHECK of the column lets through; the
\* row then holds 0 here, a score no accepted insert stores.
toolSaveSummary(d, articleId, data) ==
  LET given == "relevanceScore" \in DOMAIN data
      accepted == IF given THEN SummaryAccepted(d, articleId, data.relevanceScore)
                  ELSE articleId \in 1..Len(d.articles)
      d1 == UpsertSummary(d, articleId, data.summary, <<>>,
                          IF given THEN data.relevanceScore ELSE 0)
  IN IF accepted THEN SetStatus(d1, articleId, "summarized") ELSE d

ViewpointId(d, articleId, personaId) ==
  FirstRow({ i \in 1..Len(d.viewpoints) :
               d.viewpoints[i].articleId = articleId /\ d.viewpoints[i].personaId = personaId })

saveViewpointMutAlwaysInsert(d, articleId, personaId, viewpointText) ==
  [d EXCEPT !.viewpoints = Append(@, [articleId |-> articleId, personaId |-> personaId,
                                      viewpointText |-> viewpointText])]

\* INSERT INTO viewpoints ... ON CONFLICT (article_id, persona_id) DO UPDATE SET ...
saveViewpoint(d, articleId, personaId, viewpointText) ==
  LET row == [articleId |-> articleId, personaId |-> personaId,
              viewpointText |-> viewpointText]
      id == ViewpointId(d, articleId, personaId)
  IN IF id # 0 THEN [d EXCEPT !.viewpoints[id] = row]
     ELSE [d EXCEPT !.viewpoints = Append(@, row)]

\* rank of a priority in the text order ORDER BY uses on the TEXT column
PriorityTextRank(priority) ==
  CASE priority = "high" -> 1
    [] priority = "low" -> 2
    [] priority = "medium" -> 3

RECURSIVE SortByPriorityDesc(_, _)
SortByPriorityDesc(d, ids) ==
  IF ids = {} THEN <<>>
  ELSE LET top == CHOOSE i \in ids : \A j \in ids :
                    \/ PriorityTextRank(d.sources[i].priority)
                         > PriorityTextRank(d.sources[j].priority)
                    \/ /\ PriorityTextRank(d.sources[i].priority)
                            = PriorityTextRank(d.sources[j].priority)
                       /\ i <= j
       IN <<top>> \o SortByPriorityDesc(d, ids \ {top})

\* SELECT * FROM sources WHERE enabled = true ORDER BY priority DESC
getSources(d) ==
  SortByPriorityDesc(d, { i \in 1..Len(d.sources) : d.sources[i].enabled })


\* rank of a persona slug in ORDER BY slug: the seeded slugs and the slugs of
\* the output personas a viewpoint run creates
SlugRank(slug) ==
  CASE slug = "bill-russell" -> 1
    [] slug = "drex-deford" -> 2
    [] slug = "newsday" -> 3
    [] slug = "output-cio" -> 4
    [] slug = "output-ciso" -> 5
    [] slug = "output-general-hit" -> 6
    [] slug = "output-sales-rep" -> 7
    [] slug = "sarah-richardson" -> 8

RECURSIVE SortBySlug(_, _)
SortBySlug(d, ids) ==
  IF ids = {} THEN <<>>
  ELSE LET first == CHOOSE i \in ids : \A j \in ids :
                      SlugRank(d.personas[i].slug) <= SlugRank(d.personas[j].slug)
       IN <<first>> \o SortBySlug(d, ids \ {first})

\* SELECT * FROM personas WHERE enabled = true ORDER BY slug
getPersonas(d) ==
  SortBySlug(d, { i \in 1..Len(d.personas) : d.personas[i].enabled })

PersonaId(d, slug) ==
  FirstRow({ i \in 1..Len(d.personas) : d.personas[i].slug = slug })

\* the keys of ANALYST_PROMPTS
ANALYST_PROMPTS == {"bill-russell", "drex-deford", "sarah-richardson"}

\* the persona ids of `SELECT id FROM personas WHERE slug != 'newsday' AND enabled = true`
ViewpointPersonas(d) ==
  { i \in 1..Len(d.personas) : d.personas[i].slug # "newsday" /\ d.personas[i].enabled }

ViewpointedMutNewsdayOnly(d) ==
  { d.viewpoints[i].articleId : i \in { j \in 1..Len(d.viewpoints) :
      d.personas[d.viewpoints[j].personaId].slug = "newsday" } }

\* the article ids of `SELECT DISTINCT article_id FROM viewpoints WHERE persona_id IN (...)`
Viewpointed(d) ==
  { d.viewpoints[i].articleId : i \in { j \in 1..Len(d.viewpoints) :
                                          d.viewpoints[j].personaId \in ViewpointPersonas(d) } }

\* ORDER BY s.relevance_score DESC, a.created_at DESC over rows of summaries;
\* article ids grow with created_at
RECURSIVE SortByScoreDesc(_, _)
SortByScoreDesc(d, ids) ==
  IF ids = {} THEN <<>>
  ELSE LET top == CHOOSE i \in ids : \A j \in ids :
                    \/ d.summaries[i].relevanceScore > d.summaries[j].relevanceScore
                    \/ /\ d.summaries[i].relevanceScore = d.summaries[j].relevanceScore
                       /\ d.summaries[i].articleId >= d.summaries[j].articleId
       IN <<top>> \o SortByScoreDesc(d, ids \ {top})

\* the row the query returns for a row of summaries joined to its article
NeedingRow(d, i) ==
  [ id |-> d.summaries[i].articleId,
    title |-> d.articles[d.summaries[i].articleId].title,
    short_summary |-> d.summaries[i].shortSummary,
    topic_tags |-> d.summaries[i].topicTags,
    relevance_score |-> d.summaries[i].relevanceScore ]

getArticlesNeedingViewpointsMutAbove(d, limit) ==
  LET ids == { i \in 1..Len(d.summaries) :
                 /\ d.summaries[i].relevanceScore > 6
                 /\ d.summaries[i].articleId \notin Viewpointed(d) }
      rows == SortByScoreDesc(d, ids)
  IN [k \in 1..(IF Len(rows) < limit THEN Len(rows) ELSE limit) |-> NeedingRow(d, rows[k])]

\* getArticlesNeedingViewpoints: JOIN summaries, relevance_score >= 6, no
\* viewpoint of an enabled persona other than newsday, LIMIT
getArticlesNeedingViewpoints(d, limit) ==
  LET ids == { i \in 1..Len(d.summaries) :
                 /\ d.summaries[i].relevanceScore >= 6
                 /\ d.summaries[i].articleId \notin Viewpointed(d) }
      rows == SortByScoreDesc(d, ids)
  IN [k \in 1..(IF Len(rows) < limit THEN Len(rows) ELSE limit) |-> NeedingRow(d, rows[k])]

\* LIMIT 20 of getArticlesNeedingRoundtable
RoundtableQueryLimit == 20

\* ORDER BY a.created_at DESC: article ids grow with created_at
RECURSIVE NewestFirst(_)
NewestFirst(ids) ==
  IF ids = {} THEN <<>>
  ELSE LET newest == CHOOSE i \in ids : \A j \in ids : j <= i
       IN <<[id |-> newest]>> \o NewestFirst(ids \ {newest})

\* SELECT COUNT(DISTINCT v.persona_id) FROM viewpoints v JOIN personas p ...
\* WHERE v.article_id = a.id AND p.slug != 'newsday' AND p.enabled = true
CountViewpointPersonas(d, articleId) ==
  Cardinality({ d.viewpoints[i].personaId : i \in { j \in 1..Len(d.viewpoints) :
                  /\ d.viewpoints[j].articleId = articleId
                  /\ d.viewpoints[j].personaId \in ViewpointPersonas(d) } })

\* SELECT v2.article_id FROM viewpoints v2 JOIN personas p2 ... WHERE p2.slug = 'newsday'
Roundtabled(d) ==
  { d.viewpoints[i].articleId : i \in { j \in 1..Len(d.viewpoints) :
      d.personas[d.viewpoints[j].personaId].slug = "newsday" } }

\* getArticlesNeedingRoundtable
getArticlesNeedingRoundtable(d) ==
  LET ids == { a \in 1..Len(d.articles) :
                 CountViewpointPersonas(d, a) = 3 /\ a \notin Roundtabled(d) }
      rows == NewestFirst(ids)
  IN SubSeq(rows, 1, IF Len(rows) < RoundtableQueryLimit THEN Len(rows)
                     ELSE RoundtableQueryLimit)

(***************************************************************************)
(* What the outside world supplies: feed items and model responses.        *)
(***************************************************************************)
\* items a source may list: I4 shares its URL with I1 and its content with I2
I1 == [url |-> "u1", title |-> "t1", content |-> "c1"]
I2 == [url |-> "u2", title |-> "t2", content |-> "c2"]
I3 == [url |-> "u3", title |-> "t3", content |-> "c3"]
I4 == [url |-> "u1", title |-> "t4", content |-> "c2"]

\* what the two sources may list, unchanged from one run to the next
FeedChoices == { <<<<I1, I2, I3>>, <<>>>>, <<<<I1, I2>>, <<I4>>>> }

\* maxItems of scrapeRssFeed and scrapeHtmlPage as monitorSourcesStep calls them
FetchCap == 10

\* feed.items.slice(0, maxItems).map(...): a candidate with its content hash
RECURSIVE Candidates(_, _)
Candidates(items, sourceId) ==
  IF items = <<>> THEN <<>>
  ELSE <<[url |-> Head(items).url, title |-> Head(items).title,
          content |-> Head(items).content, contentHash |-> Md5(Head(items).content),
          sourceId |-> sourceId, author |-> ""]>>
       \o Candidates(Tail(items), sourceId)

scrapeMutSkipFirst(items, maxItems, sourceId) ==
  Candidates(SubSeq(items, 2, IF Len(items) < maxItems THEN Len(items) ELSE maxItems),
             sourceId)

\* scrapeRssFeed and scrapeHtmlPage: the first maxItems items of the source
scrape(items, maxItems, sourceId) ==
  Candidates(SubSeq(items, 1, IF Len(items) < maxItems THEN Len(items) ELSE maxItems),
             sourceId)

\* entities as the extraction call reports them; a confidence is kept in
\* hundredths, 90 for the 0.9 of the prompt's example
Org(name) == [name |-> name, type |-> "vendor", confidence |-> 90]
Person(name, organization) ==
  [name |-> name, organization |-> organization, confidence |-> 90]
Tech(name, vendor) ==
  [name |-> name, category |-> "interoperability", vendor |-> vendor, confidence |-> 90]

Json(organizations, people, technologies) ==
  [kind |-> "json", organizations |-> organizations, people |-> people,
   technologies |-> technologies]
\* the call fails (API error, timeout, unparsable JSON)
Throw == [kind |-> "throw"]
\* the response holds no {...} block
Prose == [kind |-> "prose"]

\* responses of the summarization call
SummaryJson(relevanceScore) ==
  [kind |-> "json", summary |-> "s", tags |-> <<>>, relevanceScore |-> relevanceScore]

\* responses of the viewpoint and roundtable calls
ViewpointJson(viewpoint) == [kind |-> "json", viewpoint |-> viewpoint]

\* What a specification lets the outside world do: the responses of the two
\* model calls, whether a statement of the datastore may fail (dbUp: the
\* outcomes of a statement; partial: a saveEntities or saveSummary call may
\* fail after any of its statements), whether a source fetch may fail, and
\* whether a run may be triggered while another is in progress.
\* budgets of a call of n statements: n is the call that succeeds
Budgets(env, n) ==
  IF env.partial THEN 0..n ELSE IF FALSE \in env.dbUp THEN {0, n} ELSE {n}


(***************************************************************************)
(* Topic routing.                                                          *)
(***************************************************************************)
TOPIC_TO_ANALYST ==
  { <<<<"c","y","b","e","r","s","e","c","u","r","i","t","y">>, "drex-deford">>,
    <<<<"s","e","c","u","r","i","t","y">>, "drex-deford">>,
    <<<<"r","a","n","s","o","m","w","a","r","e">>, "drex-deford">>,
    <<<<"b","r","e","a","c","h">>, "drex-deford">>,
    <<<<"z","e","r","o","-","t","r","u","s","t">>, "drex-deford">>,
    <<<<"h","i","p","a","a">>, "drex-deford">>,
    <<<<"c","o","m","p","l","i","a","n","c","e">>, "drex-deford">>,
    <<<<"p","r","i","v","a","c","y">>, "drex-deford">>,
    <<<<"t","h","r","e","a","t"," ","i","n","t","e","l","l","i","g","e","n",
        "c","e">>, "drex-deford">>,
    <<<<"i","n","c","i","d","e","n","t"," ","r","e","s","p","o","n","s","e">>, "drex-deford">>,
    <<<<"l","e","a","d","e","r","s","h","i","p">>, "sarah-richardson">>,
    <<<<"w","o","r","k","f","o","r","c","e">>, "sarah-richardson">>,
    <<<<"c","h","a","n","g","e"," ","m","a","n","a","g","e","m","e","n","t">>, "sarah-richardson">>,
    <<<<"c","u","l","t","u","r","e">>, "sarah-richardson">>,
    <<<<"s","t","a","f","f","i","n","g">>, "sarah-richardson">>,
    <<<<"b","u","r","n","o","u","t">>, "sarah-richardson">>,
    <<<<"t","a","l","e","n","t"," ","p","i","p","e","l","i","n","e">>, "sarah-richardson">>,
    <<<<"r","e","t","e","n","t","i","o","n">>, "sarah-richardson">>,
    <<<<"d","i","v","e","r","s","i","t","y">>, "sarah-richardson">>,
    <<<<"t","r","a","i","n","i","n","g">>, "sarah-richardson">>,
    <<<<"c","a","r","e","e","r"," ","d","e","v","e","l","o","p","m","e","n",
        "t">>, "sarah-richardson">> }

\* The members every object literal inherits from Object.prototype whose
\* names are all lower case (the others cannot equal a lower-cased tag), with
\* the property key the inherited value turns into when tagScores is indexed
\* by it.
ObjectPrototypeMembers ==
  { <<<<"c","o","n","s","t","r","u","c","t","o","r">>, "function Object() { [native code] }">>,
    <<<<"_","_","p","r","o","t","o","_","_">>, "[object Object]">> }

\* `TOPIC_TO_ANALYST[normalizedTag]`: the own property, else the inherited
\* one, else undefined (the empty string here)
TopicAnalyst(normalizedTag) ==
  IF Has(TOPIC_TO_ANALYST, normalizedTag) THEN Get(TOPIC_TO_ANALYST, normalizedTag)
  ELSE IF Has(ObjectPrototypeMembers, normalizedTag)
  THEN Get(ObjectPrototypeMembers, normalizedTag)
  ELSE ""

\* tagScores after the first loop: the analysts in the order their keys were
\* inserted, each with its score
RECURSIVE TagScores(_, _)
TagScores(topicTags, tagScores) ==
  IF topicTags = <<>> THEN tagScores
  ELSE LET analyst == TopicAnalyst(trim(toLowerCase(Head(topicTags))))
           at == { i \in 1..Len(tagScores) : tagScores[i][1] = analyst }
       IN TagScores(Tail(topicTags),
            IF analyst = "" THEN tagScores
            ELSE IF at = {} THEN Append(tagScores, <<analyst, 1>>)
            ELSE [i \in 1..Len(tagScores) |->
                    IF i \in at THEN <<analyst, tagScores[i][2] + 1>>
                    ELSE tagScores[i]])

\* the second loop over Object.entries(tagScores): `if (score > bestScore)`
RECURSIVE BestAnalyst(_, _, _)
BestAnalyst(entries, bestAnalyst, bestScore) ==
  IF entries = <<>> THEN bestAnalyst
  ELSE IF Head(entries)[2] > bestScore
  THEN BestAnalyst(Tail(entries), Head(entries)[1], Head(entries)[2])
  ELSE BestAnalyst(Tail(entries), bestAnalyst, bestScore)

routeToAnalyst(topicTags) ==
  BestAnalyst(TagScores(topicTags, <<>>), "bill-russell", 0)


(***************************************************************************)
(* Normalization as the ingestion workflow does it inline.                 *)
(***************************************************************************)
normalizeOrgs(organizations) ==
  [i \in 1..Len(organizations) |->
     [canonicalName |-> Lookup(ORGANIZATION_ALIASES, organizations[i].name),
      type |-> organizations[i].type,
      confidence |-> organizations[i].confidence]]

normalizePeople(people) ==
  [i \in 1..Len(people) |->
     [name |-> people[i].name,
      organization |-> IF people[i].organization # <<>>
                       THEN Lookup(ORGANIZATION_ALIASES, people[i].organization)
                       ELSE people[i].organization,
      confidence |-> people[i].confidence]]

normalizeTech(technologies) ==
  [i \in 1..Len(technologies) |->
     [canonicalName |-> Lookup(TECHNOLOGY_ALIASES, technologies[i].name),
      category |-> technologies[i].category,
      vendor |-> technologies[i].vendor,
      confidence |-> technologies[i].confidence]]

(***************************************************************************)
(* Normalization as entityNormalizerTool does it.                          *)
(***************************************************************************)
\* ORGANIZATION_ALIASES of entityNormalizerTool.ts
TOOL_ORGANIZATION_ALIASES ==
  { <<<<"c","e","r","n","e","r">>,
      <<"O","r","a","c","l","e"," ","H","e","a","l","t","h">>>>,
    <<<<"c","e","r","n","e","r"," ","c","o","r","p","o","r","a","t","i","o",
        "n">>,
      <<"O","r","a","c","l","e"," ","H","e","a","l","t","h">>>>,
    <<<<"o","r","a","c","l","e"," ","c","e","r","n","e","r">>,
      <<"O","r","a","c","l","e"," ","H","e","a","l","t","h">>>>,
    <<<<"e","p","i","c"," ","s","y","s","t","e","m","s">>,
      <<"E","p","i","c">>>>,
    <<<<"e","p","i","c"," ","s","y","s","t","e","m","s"," ","c","o","r","p",
        "o","r","a","t","i","o","n">>,
      <<"E","p","i","c">>>>,
    <<<<"m","i","c","r","o","s","o","f","t"," ","c","o","r","p","o","r","a",
        "t","i","o","n">>,
      <<"M","i","c","r","o","s","o","f","t">>>>,
    <<<<"g","o","o","g","l","e"," ","h","e","a","l","t","h">>,
      <<"G","o","o","g","l","e">>>>,
    <<<<"g","o","o","g","l","e"," ","c","l","o","u","d">>,
      <<"G","o","o","g","l","e">>>>,
    <<<<"a","m","a","z","o","n"," ","w","e","b"," ","s","e","r","v","i","c",
        "e","s">>,
      <<"A","W","S">>>>,
    <<<<"a","m","a","z","o","n">>,
      <<"A","W","S">>>>,
    <<<<"i","b","m"," ","w","a","t","s","o","n"," ","h","e","a","l","t","h">>,
      <<"I","B","M">>>>,
    <<<<"i","b","m"," ","w","a","t","s","o","n">>,
      <<"I","B","M">>>>,
    <<<<"m","e","d","i","t","e","c","h">>,
      <<"M","E","D","I","T","E","C","H">>>>,
    <<<<"a","l","l","s","c","r","i","p","t","s">>,
      <<"V","e","r","a","d","i","g","m">>>>,
    <<<<"a","l","l","s","c","r","i","p","t","s"," ","h","e","a","l","t","h",
        "c","a","r","e">>,
      <<"V","e","r","a","d","i","g","m">>>>,
    <<<<"h","c","a"," ","h","e","a","l","t","h","c","a","r","e">>,
      <<"H","C","A">>>>,
    <<<<"h","c","a"," ","h","o","s","p","i","t","a","l","s">>,
      <<"H","C","A">>>>,
    <<<<"c","o","m","m","o","n","s","p","i","r","i","t"," ","h","e","a","l",
        "t","h">>,
      <<"C","o","m","m","o","n","S","p","i","r","i","t">>>>,
    <<<<"a","s","c","e","n","s","i","o","n"," ","h","e","a","l","t","h">>,
      <<"A","s","c","e","n","s","i","o","n">>>>,
    <<<<"k","a","i","s","e","r"," ","p","e","r","m","a","n","e","n","t","e">>,
      <<"K","a","i","s","e","r">>>>,
    <<<<"k","a","i","s","e","r"," ","f","o","u","n","d","a","t","i","o","n">>,
      <<"K","a","i","s","e","r">>>>,
    <<<<"i","n","t","e","r","m","o","u","n","t","a","i","n"," ","h","e","a",
        "l","t","h","c","a","r","e">>,
      <<"I","n","t","e","r","m","o","u","n","t","a","i","n">>>>,
    <<<<"i","n","t","e","r","m","o","u","n","t","a","i","n"," ","h","e","a",
        "l","t","h">>,
      <<"I","n","t","e","r","m","o","u","n","t","a","i","n">>>>,
    <<<<"c","l","e","v","e","l","a","n","d"," ","c","l","i","n","i","c"," ",
        "f","o","u","n","d","a","t","i","o","n">>,
      <<"C","l","e","v","e","l","a","n","d"," ","C","l","i","n","i","c">>>>,
    <<<<"m","a","y","o"," ","c","l","i","n","i","c"," ","h","o","s","p","i",
        "t","a","l">>,
      <<"M","a","y","o"," ","C","l","i","n","i","c">>>>,
    <<<<"j","o","h","n","s"," ","h","o","p","k","i","n","s"," ","m","e","d",
        "i","c","i","n","e">>,
      <<"J","o","h","n","s"," ","H","o","p","k","i","n","s">>>>,
    <<<<"j","o","h","n","s"," ","h","o","p","k","i","n","s"," ","h","o","s",
        "p","i","t","a","l">>,
      <<"J","o","h","n","s"," ","H","o","p","k","i","n","s">>>>,
    <<<<"o","f","f","i","c","e"," ","o","f"," ","t","h","e"," ","n","a","t",
        "i","o","n","a","l"," ","c","o","o","r","d","i","n","a","t","o","r">>,
      <<"O","N","C">>>>,
    <<<<"o","f","f","i","c","e"," ","o","f"," ","n","a","t","i","o","n","a",
        "l"," ","c","o","o","r","d","i","n","a","t","o","r">>,
      <<"O","N","C">>>>,
    <<<<"c","e","n","t","e","r","s"," ","f","o","r"," ","m","e","d","i","c",
        "a","r","e"," ","a","n","d"," ","m","e","d","i","c","a","i","d"," ",
        "s","e","r","v","i","c","e","s">>,
      <<"C","M","S">>>>,
    <<<<"c","e","n","t","e","r","s"," ","f","o","r"," ","m","e","d","i","c",
        "a","r","e"," ","&"," ","m","e","d","i","c","a","i","d"," ","s","e",
        "r","v","i","c","e","s">>,
      <<"C","M","S">>>>,
    <<<<"d","e","p","a","r","t","m","e","n","t"," ","o","f"," ","h","e","a",
        "l","t","h"," ","a","n","d"," ","h","u","m","a","n"," ","s","e","r",
        "v","i","c","e","s">>,
      <<"H","H","S">>>>,
    <<<<"h","h","s">>,
      <<"H","H","S">>>>,
    <<<<"f","o","o","d"," ","a","n","d"," ","d","r","u","g"," ","a","d","m",
        "i","n","i","s","t","r","a","t","i","o","n">>,
      <<"F","D","A">>>>,
    <<<<"v","e","t","e","r","a","n","s"," ","a","f","f","a","i","r","s">>,
      <<"V","A">>>>,
    <<<<"v","e","t","e","r","a","n","s"," ","h","e","a","l","t","h"," ","a",
        "d","m","i","n","i","s","t","r","a","t","i","o","n">>,
      <<"V","A">>>> }

\* TECHNOLOGY_ALIASES of entityNormalizerTool.ts
TOOL_TECHNOLOGY_ALIASES ==
  { <<<<"e","p","i","c"," ","c","o","s","m","o","s">>,
      <<"C","o","s","m","o","s">>>>,
    <<<<"e","p","i","c"," ","m","y","c","h","a","r","t">>,
      <<"M","y","C","h","a","r","t">>>>,
    <<<<"c","e","r","n","e","r"," ","m","i","l","l","e","n","n","i","u","m">>,
      <<"M","i","l","l","e","n","n","i","u","m">>>>,
    <<<<"o","r","a","c","l","e"," ","h","e","a","l","t","h"," ","m","i","l",
        "l","e","n","n","i","u","m">>,
      <<"M","i","l","l","e","n","n","i","u","m">>>>,
    <<<<"f","a","s","t"," ","h","e","a","l","t","h","c","a","r","e"," ","i",
        "n","t","e","r","o","p","e","r","a","b","i","l","i","t","y"," ","r",
        "e","s","o","u","r","c","e","s">>,
      <<"F","H","I","R">>>>,
    <<<<"h","e","a","l","t","h"," ","l","e","v","e","l"," ","s","e","v","e",
        "n">>,
      <<"H","L","7">>>>,
    <<<<"h","e","a","l","t","h"," ","l","e","v","e","l"," ","7">>,
      <<"H","L","7">>>>,
    <<<<"e","l","e","c","t","r","o","n","i","c"," ","h","e","a","l","t","h",
        " ","r","e","c","o","r","d">>,
      <<"E","H","R">>>>,
    <<<<"e","l","e","c","t","r","o","n","i","c"," ","m","e","d","i","c","a",
        "l"," ","r","e","c","o","r","d">>,
      <<"E","M","R">>>>,
    <<<<"a","r","t","i","f","i","c","i","a","l"," ","i","n","t","e","l","l",
        "i","g","e","n","c","e">>,
      <<"A","I">>>>,
    <<<<"m","a","c","h","i","n","e"," ","l","e","a","r","n","i","n","g">>,
      <<"M","L">>>>,
    <<<<"n","a","t","u","r","a","l"," ","l","a","n","g","u","a","g","e"," ",
        "p","r","o","c","e","s","s","i","n","g">>,
      <<"N","L","P">>>>,
    <<<<"c","l","i","n","i","c","a","l"," ","d","e","c","i","s","i","o","n",
        " ","s","u","p","p","o","r","t">>,
      <<"C","D","S">>>>,
    <<<<"r","e","v","e","n","u","e"," ","c","y","c","l","e"," ","m","a","n",
        "a","g","e","m","e","n","t">>,
      <<"R","C","M">>>>,
    <<<<"p","o","p","u","l","a","t","i","o","n"," ","h","e","a","l","t","h",
        " ","m","a","n","a","g","e","m","e","n","t">>,
      <<"P","H","M">>>>,
    <<<<"p","a","t","i","e","n","t"," ","p","o","r","t","a","l">>,
      <<"P","a","t","i","e","n","t"," ","P","o","r","t","a","l">>>>,
    <<<<"t","e","l","e","h","e","a","l","t","h"," ","p","l","a","t","f","o",
        "r","m">>,
      <<"T","e","l","e","h","e","a","l","t","h">>>>,
    <<<<"t","e","l","e","m","e","d","i","c","i","n","e">>,
      <<"T","e","l","e","h","e","a","l","t","h">>>>,
    <<<<"v","i","r","t","u","a","l"," ","c","a","r","e">>,
      <<"T","e","l","e","h","e","a","l","t","h">>>> }

\* `!!canonical`
Aliased(dict, name) ==
  \/ Has(dict, trim(toLowerCase(name)))
  \/ Has(InheritedAliases, trim(toLowerCase(name)))

\* context.organizations.map(...)
toolNormalizeOrgs(organizations) ==
  [i \in 1..Len(organizations) |->
     [canonicalName |-> Lookup(TOOL_ORGANIZATION_ALIASES, organizations[i].name),
      originalName |-> organizations[i].name,
      type |-> organizations[i].type,
      confidence |-> organizations[i].confidence,
      wasNormalized |-> Aliased(TOOL_ORGANIZATION_ALIASES, organizations[i].name)]]

\* context.people.map(...)
toolNormalizePeople(people) ==
  [i \in 1..Len(people) |->
     [name |-> trim(people[i].name),
      organization |-> IF people[i].organization # <<>>
                       THEN Lookup(TOOL_ORGANIZATION_ALIASES, people[i].organization)
                       ELSE people[i].organization,
      confidence |-> people[i].confidence]]

\* context.technologies.map(...)
toolNormalizeTech(technologies) ==
  [i \in 1..Len(technologies) |->
     [canonicalName |-> Lookup(TOOL_TECHNOLOGY_ALIASES, technologies[i].name),
      originalName |-> technologies[i].name,
      category |-> technologies[i].category,
      vendor |-> IF technologies[i].vendor # <<>>
                 THEN Lookup(TOOL_ORGANIZATION_ALIASES, technologies[i].vendor)
                 ELSE technologies[i].vendor,
      confidence |-> technologies[i].confidence,
      wasNormalized |-> Aliased(TOOL_TECHNOLOGY_ALIASES, technologies[i].name)]]

\* entities.filter((e, index, self) =>
\*   index === self.findIndex((o) => o.canonicalName === e.canonicalName))
RECURSIVE Unique(_, _)
Unique(entities, kept) ==
  IF entities = <<>> THEN kept
  ELSE Unique(Tail(entities),
              IF \E k \in 1..Len(kept) : kept[k].canonicalName = Head(entities).canonicalName
              THEN kept ELSE Append(kept, Head(entities)))

\* entityNormalizerTool.execute
entityNormalizerTool(context) ==
  [ organizations |-> Unique(toolNormalizeOrgs(context.organizations), <<>>),
    people |-> toolNormalizePeople(context.people),
    technologies |-> Unique(toolNormalizeTech(context.technologies), <<>>),
    success |-> TRUE ]

\* the normalization of processArticlesStep, on the same input
inlineNormalization(extracted) ==
  [ organizations |-> normalizeOrgs(extracted.organizations),
    people |-> normalizePeople(extracted.people),
    technologies |-> normalizeTech(extracted.technologies) ]

\* the entities as the manual-submission and the Slack handlers hand them to
\* saveEntities: the extracted name is taken as the canonical name
unnormalizedOrgs(organizations) ==
  [i \in 1..Len(organizations) |->
     [canonicalName |-> organizations[i].name,
      type |-> organizations[i].type,
      confidence |-> organizations[i].confidence]]

unnormalizedTech(technologies) ==
  [i \in 1..Len(technologies) |->
     [canonicalName |-> technologies[i].name,
      category |-> technologies[i].category,
      vendor |-> technologies[i].vendor,
      confidence |-> technologies[i].confidence]]

(***************************************************************************)
(* The ingestion workflow: load-sources, monitor-sources, filter-content,  *)
(* process-articles, store-results, in this order; a step that throws      *)
(* fails the run.  `warnings` counts the warnings a run logged and         *)
(* `answered` keeps how the extraction call of the article in hand         *)
(* answered, `loadFailed` that load-sources caught an error; the program   *)
(* holds none of them.                                                     *)
(***************************************************************************)
IdleRun ==
  [ pc |-> "idle", after |-> {}, sources |-> <<>>, success |-> TRUE,
    loadFailed |-> FALSE, extracted |-> <<>>, stmt |-> 0, returned |-> 0,
    fetched |-> {}, articles |-> <<>>, idx |-> 0,
    newArticles |-> <<>>, duplicatesSkipped |-> 0,
    articleId |-> 0, entitiesExtracted |-> 0, answered |-> "",
    processedArticles |-> <<>>, errors |-> 0, warnings |-> 0,
    inserted |-> 0, stored |-> {}, result |-> <<>> ]

Finished(r) == run[r].pc \in {"done", "failed"}

\* History, kept to state properties: an event is a model call made for an
\* article ("extract", "summarize") or a completed saveEntities call
\* ("saveEntities", with the organization names as the model spelled them);
\* path and actor name the entry path and the run or request that acted.
Event(op, path, actor, article, articleId, mentions) ==
  [op |-> op, path |-> path, actor |-> actor, url |-> article.url,
   content |-> article.content, articleId |-> articleId, mentions |-> mentions,
   persona |-> 0, entities |-> 0]

\* a model call made for a persona's viewpoint on an article
PersonaEvent(op, path, actor, article, articleId, personaId) ==
  [Event(op, path, actor, article, articleId, {}) EXCEPT !.persona = personaId]

Mentions(organizations) == { organizations[i].name : i \in 1..Len(organizations) }

\* a completed saveEntities call, with the number of entities handed to it
EntitiesEvent(path, actor, article, articleId, organizations, entities) ==
  [Event("saveEntities", path, actor, article, articleId, Mentions(organizations))
     EXCEPT !.entities = entities]

Log(history, event) == history (+) SetToBag({event})


\* the URLs and content hashes of the persisted articles
Stored(d) ==
  { [url |-> d.articles[i].url, contentHash |-> d.articles[i].contentHash] :
      i \in 1..Len(d.articles) }

\* loadSourcesStep.execute; dbUp is false when initializeDatabase, logAction or
\* getSources throws
LoadSources(r, env) ==
  /\ run[r].pc = "idle"
  /\ r > 1 => run[r - 1].pc # "idle"
  /\ ~env.overlap => \A o \in Runs : run[o].pc \in {"idle", "done", "failed"}
  /\ \E dbUp \in env.dbUp :
       run' = [run EXCEPT ![r] =
                 [@ EXCEPT !.pc = "monitor",
                           !.after = { o \in Runs : Finished(o) },
                           !.stored = Stored(db),
                           !.sources = IF dbUp THEN getSources(db) ELSE <<>>,
                           !.success = dbUp,
                           !.loadFailed = ~dbUp]]
  /\ UNCHANGED <<vp, probe, call, db, feed, req, trace>>

RECURSIVE ScrapedMutStopAtFailure(_, _)
ScrapedMutStopAtFailure(sources, ok) ==
  IF sources = <<>> \/ Head(sources) \notin ok THEN <<>>
  ELSE scrape(feed[Head(sources)], FetchCap, Head(sources))
       \o ScrapedMutStopAtFailure(Tail(sources), ok)

\* the candidates of the sources fetched without error, in the order of the loop
RECURSIVE Scraped(_, _)
Scraped(sources, ok) ==
  IF sources = <<>> THEN <<>>
  ELSE (IF Head(sources) \in ok THEN scrape(feed[Head(sources)], FetchCap, Head(sources))
        ELSE <<>>)
       \o Scraped(Tail(sources), ok)

\* monitorSourcesStep.execute; ok is the set of sources whose fetch does not throw
MonitorSources(r, env) ==
  /\ run[r].pc = "monitor"
  /\ IF ~run[r].success \/ run[r].sources = <<>>
     THEN run' = [run EXCEPT ![r] = [@ EXCEPT !.pc = "filter", !.success = FALSE]]
     ELSE \E ok \in SUBSET { run[r].sources[i] : i \in 1..Len(run[r].sources) } :
            /\ ~env.fetchFails =>
                 ok = { run[r].sources[i] : i \in 1..Len(run[r].sources) }
            /\ run' = [run EXCEPT ![r] =
                      [@ EXCEPT !.pc = "filter",
                                !.fetched = ok,
                                !.articles = Scraped(run[r].sources, ok),
                                !.idx = 1]]
  /\ UNCHANGED <<vp, probe, call, db, feed, req, trace>>

\* filterContentStep.execute: the early return and the end of the loop
FilterDone(r) ==
  /\ run[r].pc = "filter"
  /\ run[r].success => run[r].idx > Len(run[r].articles)
  /\ run' = [run EXCEPT ![r] =
               [@ EXCEPT !.pc = IF run[r].newArticles = <<>> THEN "store" ELSE "save",
                         !.success = TRUE,
                         !.idx = 1]]
  /\ UNCHANGED <<vp, probe, call, db, feed, req, trace>>

keepMutKeepAll(checkResult) == TRUE

\* filterContentStep.execute: `if (!checkResult.exists)`
keep(checkResult) == ~checkResult.exists

\* filterContentStep.execute: one round of the loop; the query may throw, which
\* nothing catches
FilterArticle(r, env) ==
  /\ run[r].pc = "filter"
  /\ run[r].success
  /\ run[r].idx <= Len(run[r].articles)
  /\ \E dbUp \in env.dbUp :
       LET article == run[r].articles[run[r].idx]
           checkResult == checkArticleExists(db, article.contentHash, article.url)
       IN run' = [run EXCEPT ![r] =
                    IF ~dbUp THEN [@ EXCEPT !.pc = "failed"]
                    ELSE IF keep(checkResult)
                    THEN [@ EXCEPT !.newArticles = Append(@, article), !.idx = @ + 1]
                    ELSE [@ EXCEPT !.duplicatesSkipped = @ + 1, !.idx = @ + 1]]
  /\ UNCHANGED <<vp, probe, call, db, feed, req, trace>>

\* processArticlesStep.execute: the next round of the loop, or its end
NextArticle(rec) ==
  IF rec.idx < Len(rec.newArticles)
  THEN [rec EXCEPT !.pc = "save", !.idx = @ + 1, !.articleId = 0,
                   !.entitiesExtracted = 0, !.answered = ""]
  ELSE [rec EXCEPT !.pc = "store", !.articleId = 0, !.entitiesExtracted = 0,
                   !.answered = ""]

\* processArticlesStep.execute, 1: saveArticle; when it throws the outer catch
\* counts an error and the loop goes on
SaveArticle(r, env) ==
  /\ run[r].pc = "save"
  /\ \E dbUp \in env.dbUp :
       LET article == run[r].newArticles[run[r].idx]
       IN IF dbUp
          THEN /\ db' = saveArticle(db, article)
               /\ run' = [run EXCEPT ![r] =
                            [@ EXCEPT !.pc = "extract",
                                      !.articleId = ArticleIdByUrl(db', article.url),
                                      !.inserted = @ + Len(db'.articles) - Len(db.articles)]]
          ELSE /\ run' = [run EXCEPT ![r] = NextArticle([@ EXCEPT !.errors = @ + 1])]
               /\ db' = db
  /\ UNCHANGED <<vp, probe, call, feed, req, trace>>

\* processArticlesStep.execute, 2: the extraction call, the inline normalization
\* and saveEntities, inside their own try/catch
ExtractEntities(r, env) ==
  /\ run[r].pc = "extract"
  /\ \E response \in env.extraction :
       LET article == run[r].newArticles[run[r].idx]
           normalizedOrgs == normalizeOrgs(response.organizations)
           normalizedPeople == normalizePeople(response.people)
           normalizedTech == normalizeTech(response.technologies)
           called == Log(trace, Event("extract", "ingestion", r, article,
                                      run[r].articleId, {}))
       IN    CASE response.kind = "throw" ->
                    /\ db' = db
                    /\ trace' = called
                    /\ run' = [run EXCEPT ![r] =
                                 [@ EXCEPT !.pc = "summarize", !.answered = "throw",
                                           !.warnings = @ + 1]]
               [] response.kind = "prose" ->
                    /\ db' = db
                    /\ trace' = called
                    /\ run' = [run EXCEPT ![r] =
                                 [@ EXCEPT !.pc = "summarize", !.answered = "prose"]]
               [] response.kind = "json" /\ env.overlap ->
                    /\ db' = db
                    /\ trace' = called
                    /\ run' = [run EXCEPT ![r] =
                                 [@ EXCEPT !.pc = "entities", !.answered = "json",
                                           !.extracted = response, !.stmt = 1]]
               [] response.kind = "json" /\ ~env.overlap ->
                    \E budget \in Budgets(env, EntityStatements(normalizedOrgs,
                                                   normalizedPeople, normalizedTech)) :
                      LET saved == saveEntities(db, run[r].articleId, normalizedOrgs,
                                                normalizedPeople, normalizedTech, budget)
                      IN /\ db' = saved.db
                         /\ trace' =
                              IF saved.threw THEN called
                              ELSE Log(called,
                                       EntitiesEvent("ingestion", r, article, run[r].articleId,
                                                     response.organizations,
                                                     Len(normalizedOrgs)
                                                       + Len(normalizedPeople)
                                                       + Len(normalizedTech)))
                         /\ run' = [run EXCEPT ![r] =
                              IF saved.threw
                              THEN [@ EXCEPT !.pc = "summarize", !.answered = "json",
                                             !.warnings = @ + 1]
                              ELSE [@ EXCEPT !.pc = "summarize", !.answered = "json",
                                             !.entitiesExtracted =
                                                Len(normalizedOrgs) + Len(normalizedPeople)
                                                  + Len(normalizedTech)]]
  /\ UNCHANGED <<vp, probe, call, feed, req>>

\* processArticlesStep.execute, 2, while another run is in progress: one
\* statement of the saveEntities call
SaveEntitiesStatement(r, env) ==
  /\ run[r].pc = "entities"
  /\ LET article == run[r].newArticles[run[r].idx]
         normalizedOrgs == normalizeOrgs(run[r].extracted.organizations)
         normalizedPeople == normalizePeople(run[r].extracted.people)
         normalizedTech == normalizeTech(run[r].extracted.technologies)
         executed == EntityStatement(db, run[r].articleId, normalizedOrgs,
                                     normalizedPeople, normalizedTech,
                                     run[r].stmt, run[r].returned)
     IN /\ db' = executed.db
        /\ IF run[r].stmt < EntityStatements(normalizedOrgs, normalizedPeople,
                                             normalizedTech)
           THEN /\ run' = [run EXCEPT ![r] =
                             [@ EXCEPT !.stmt = @ + 1, !.returned = executed.returned]]
                /\ trace' = trace
           ELSE /\ run' = [run EXCEPT ![r] =
                             [@ EXCEPT !.pc = "summarize",
                                       !.extracted = <<>>, !.stmt = 0, !.returned = 0,
                                       !.entitiesExtracted =
                                          Len(normalizedOrgs) + Len(normalizedPeople)
                                            + Len(normalizedTech)]]
                /\ trace' = Log(trace, EntitiesEvent("ingestion", r, article, run[r].articleId,
                                                 run[r].extracted.organizations,
                                                 Len(normalizedOrgs)
                                                   + Len(normalizedPeople)
                                                   + Len(normalizedTech)))
  /\ UNCHANGED <<vp, probe, call, feed, req>>

\* `summaryData.relevanceScore || 5`
ScoreOrDefault(relevanceScore) == IF relevanceScore = 0 THEN 5 ELSE relevanceScore

\* processedArticles.push({articleId, title, entitiesExtracted, hasSummary})
\* and the next round of the loop
Pushed(rec, hasSummary) ==
  NextArticle([rec EXCEPT !.processedArticles =
                 Append(@, [articleId |-> rec.articleId,
                            title |-> rec.newArticles[rec.idx].title,
                            entitiesExtracted |-> rec.entitiesExtracted,
                            hasSummary |-> hasSummary])])

\* processArticlesStep.execute, 3: the summary call and saveSummary, inside
\* their own try/catch, then processedArticles.push
Summarize(r, env) ==
  /\ run[r].pc = "summarize"
  /\ \E response \in env.summary :
       LET Push(rec, hasSummary) == Pushed(rec, hasSummary)
           article == run[r].newArticles[run[r].idx]
       IN /\ trace' = Log(trace, Event("summarize", "ingestion", r, article,
                                       run[r].articleId, {}))
          /\ CASE response.kind = "throw" ->
                    /\ db' = db
                    /\ run' = [run EXCEPT ![r] = Push([@ EXCEPT !.warnings = @ + 1], FALSE)]
               [] response.kind = "prose" ->
                    /\ db' = db
                    /\ run' = [run EXCEPT ![r] = Push(@, FALSE)]
               [] response.kind = "json" /\ env.overlap ->
                    LET saved == saveSummary(db, run[r].articleId, response.summary,
                                             response.tags,
                                             ScoreOrDefault(response.relevanceScore), 1)
                        refused == ~SummaryAccepted(db, run[r].articleId,
                                                    ScoreOrDefault(response.relevanceScore))
                    IN /\ db' = saved.db
                       /\ run' = [run EXCEPT ![r] =
                            IF refused THEN Push([@ EXCEPT !.warnings = @ + 1], FALSE)
                            ELSE [@ EXCEPT !.pc = "status"]]
               [] response.kind = "json" /\ ~env.overlap ->
                    \E budget \in Budgets(env, 2) :
                      LET saved == saveSummary(db, run[r].articleId, response.summary,
                                               response.tags,
                                               ScoreOrDefault(response.relevanceScore),
                                               budget)
                      IN /\ db' = saved.db
                         /\ run' = [run EXCEPT ![r] =
                              IF saved.threw
                              THEN Push([@ EXCEPT !.warnings = @ + 1], FALSE)
                              ELSE Push(@, TRUE)]
  /\ UNCHANGED <<vp, probe, call, feed, req>>

\* processArticlesStep.execute, 3, while another run is in progress: the
\* second statement of the saveSummary call
SaveSummaryStatement(r, env) ==
  /\ run[r].pc = "status"
  /\ db' = SetStatus(db, run[r].articleId, "summarized")
  /\ run' = [run EXCEPT ![r] = Pushed(@, TRUE)]
  /\ UNCHANGED <<vp, probe, call, feed, req, trace>>

RECURSIVE SumEntities(_)
SumEntities(processedArticles) ==
  IF processedArticles = <<>> THEN 0
  ELSE Head(processedArticles).entitiesExtracted + SumEntities(Tail(processedArticles))

\* storeResultsStep.execute; the step sees the output of processArticlesStep
\* only; logAction may throw, which nothing catches
StoreResults(r, env) ==
  /\ run[r].pc = "store"
  /\ \E dbUp \in env.dbUp :
       run' = [run EXCEPT ![r] =
                 IF ~dbUp THEN [@ EXCEPT !.pc = "failed"]
                 ELSE [@ EXCEPT !.pc = "done",
                                !.result =
                                   [articlesProcessed |-> Len(run[r].processedArticles),
                                    entitiesExtracted |-> SumEntities(run[r].processedArticles),
                                    summariesGenerated |->
                                      Cardinality({ i \in 1..Len(run[r].processedArticles) :
                                                      run[r].processedArticles[i].hasSummary }),
                                    errors |-> run[r].errors,
                                    success |-> TRUE]]]
  /\ UNCHANGED <<vp, probe, call, db, feed, req, trace>>


(***************************************************************************)
(* The entry paths that process one article outside the workflow: manual   *)
(* submission (POST /api/articles/submit) and a link shared in Slack       *)
(* (POST /api/slack/events).  Their entity and summary stages are the      *)
(* stages modelled here.                                                   *)
(***************************************************************************)
IdleRequest ==
  [ pc |-> "idle", kind |-> "none", article |-> <<>>, articleId |-> 0,
    entitiesExtracted |-> 0, hasSummary |-> FALSE, relevanceScore |-> 0,
    personas |-> <<>>, viewpointsGenerated |-> 0 ]

\* what a request may carry once its content is known (pasted or scraped): a
\* URL and a content, either of which a feed may list too; no content at all
RequestBodies ==
  { [url |-> "u2", title |-> "t2", content |-> "c2"],
    [url |-> "u2", title |-> "t5", content |-> "c5"],
    [url |-> "u2", title |-> "t2", content |-> ""] }

RequestArticle(body, author) ==
  [url |-> body.url, title |-> body.title, content |-> body.content,
   contentHash |-> Md5(body.content), sourceId |-> 0, author |-> author]

\* /api/articles/submit handler: validation, scrape, `if (!content || content.length < 20)`
SubmitArticle(q) ==
  /\ req[q].pc = "idle"
  /\ \E body \in RequestBodies :
       req' = [req EXCEPT ![q] =
                 IF body.content = ""
                 THEN [@ EXCEPT !.pc = "done", !.kind = "submit"]
                 ELSE [@ EXCEPT !.pc = "save", !.kind = "submit",
                                !.article = RequestArticle(body, "Manual submission")]]
  /\ UNCHANGED <<vp, probe, call, db, feed, run, trace>>

\* /api/slack/events handler: one URL of the message, scraped;
\* `if (!content || content.length < 50) continue`
SlackLink(q) ==
  /\ req[q].pc = "idle"
  /\ \E body \in RequestBodies :
       req' = [req EXCEPT ![q] =
                 IF body.content = ""
                 THEN [@ EXCEPT !.pc = "done", !.kind = "slack"]
                 ELSE [@ EXCEPT !.pc = "save", !.kind = "slack",
                                !.article = RequestArticle(body, "Slack submission")]]
  /\ UNCHANGED <<vp, probe, call, db, feed, run, trace>>

\* both handlers: saveArticle; when it throws the handler's outer catch ends
\* the processing of the article
HandlerSaveArticle(q, env) ==
  /\ req[q].pc = "save"
  /\ \E dbUp \in env.dbUp :
       IF dbUp
       THEN /\ db' = saveArticle(db, req[q].article)
            /\ req' = [req EXCEPT ![q] =
                         [@ EXCEPT !.pc = "extract",
                                   !.articleId = ArticleIdByUrl(db', req[q].article.url)]]
       ELSE /\ db' = db
            /\ req' = [req EXCEPT ![q] = [@ EXCEPT !.pc = "done"]]
  /\ UNCHANGED <<vp, probe, call, feed, run, trace>>

\* both handlers: the extraction call and saveEntities, inside their own try/catch
HandlerExtractEntities(q, env) ==
  /\ req[q].pc = "extract"
  /\ \E response \in env.extraction :
       LET called == Log(trace, Event("extract", req[q].kind, q, req[q].article,
                                      req[q].articleId, {}))
       IN IF response.kind # "json"
          THEN /\ db' = db
               /\ trace' = called
               /\ req' = [req EXCEPT ![q] = [@ EXCEPT !.pc = "summarize"]]
          ELSE LET orgs == unnormalizedOrgs(response.organizations)
                   people == response.people
                   tech == unnormalizedTech(response.technologies)
               IN \E budget \in Budgets(env, EntityStatements(orgs, people, tech)) :
                    LET saved == saveEntities(db, req[q].articleId, orgs, people, tech,
                                              budget)
                    IN /\ db' = saved.db
                       /\ trace' =
                            IF saved.threw THEN called
                            ELSE Log(called,
                                     EntitiesEvent(req[q].kind, q, req[q].article,
                                                   req[q].articleId,
                                                   response.organizations,
                                                   Len(orgs) + Len(people) + Len(tech)))
                       /\ req' = [req EXCEPT ![q] =
                            [@ EXCEPT !.pc = "summarize",
                                      !.entitiesExtracted =
                                         IF saved.threw THEN 0
                                         ELSE Len(orgs) + Len(people) + Len(tech)]]
  /\ UNCHANGED <<vp, probe, call, feed, run>>

\* SELECT * FROM personas WHERE enabled = true AND slug != 'newsday' ORDER BY slug
AnalystPersonas(d) ==
  SortBySlug(d, { i \in 1..Len(d.personas) :
                    d.personas[i].enabled /\ d.personas[i].slug # "newsday" })

\* SELECT * FROM personas WHERE slug = 'newsday'
NewsdayPersona(d) ==
  FirstRow({ i \in 1..Len(d.personas) : d.personas[i].slug = "newsday" })

\* the condition under which a handler goes on to the persona viewpoints:
\* `if (summaryData)` in the Slack handler,
\* `if (summaryData && (summaryData.relevanceScore || 0) >= 6)` in the
\* manual-submission handler
WantsViewpoints(kind, hasSummary, relevanceScore) ==
  hasSummary /\ (kind = "slack" \/ relevanceScore >= 6)

\* both handlers: the summary call and saveSummary, inside their own
\* try/catch, then the personas query
HandlerSummarize(q, env) ==
  /\ req[q].pc = "summarize"
  /\ \E response \in env.summary :
       /\ trace' = Log(trace, Event("summarize", req[q].kind, q, req[q].article,
                                    req[q].articleId, {}))
       /\ IF response.kind # "json"
          THEN /\ db' = db
               /\ req' = [req EXCEPT ![q] = [@ EXCEPT !.pc = "done"]]
          ELSE \E budget \in Budgets(env, 2) :
                 LET saved == saveSummary(db, req[q].articleId, response.summary,
                                          response.tags,
                                          ScoreOrDefault(response.relevanceScore), budget)
                 IN /\ db' = saved.db
                    /\ req' = [req EXCEPT ![q] =
                         [@ EXCEPT !.pc = IF WantsViewpoints(req[q].kind, TRUE,
                                                             response.relevanceScore)
                                             /\ AnalystPersonas(db) # <<>>
                                          THEN "viewpoint" ELSE "done",
                                   !.hasSummary = TRUE,
                                   !.relevanceScore = response.relevanceScore,
                                   !.personas = AnalystPersonas(db)]]
  /\ UNCHANGED <<vp, probe, call, feed, run>>

\* both handlers: one round of the persona loop, inside its own try/catch;
\* buildPersonaPrompt throws for a slug that has no analyst prompt
HandlerViewpoint(q, env) ==
  /\ req[q].pc = "viewpoint"
  /\ \E response \in env.viewpoint, dbUp \in env.dbUp :
       LET personaId == Head(req[q].personas)
           prompted == db.personas[personaId].slug \in ANALYST_PROMPTS
           saved == prompted /\ response.kind = "json" /\ dbUp
           generated == req[q].viewpointsGenerated + (IF saved THEN 1 ELSE 0)
       IN /\ trace' = IF prompted
                      THEN Log(trace, PersonaEvent("viewpoint", req[q].kind, q,
                                                   req[q].article, req[q].articleId,
                                                   personaId))
                      ELSE trace
          /\ db' = IF saved
                   THEN saveViewpoint(db, req[q].articleId, personaId, response.viewpoint)
                   ELSE db
          /\ req' = [req EXCEPT ![q] =
                       [@ EXCEPT !.personas = Tail(@),
                                 !.viewpointsGenerated = generated,
                                 !.pc = IF Tail(req[q].personas) # <<>> THEN "viewpoint"
                                        ELSE IF generated = 3 THEN "roundtable"
                                        ELSE "done"]]
  /\ UNCHANGED <<vp, probe, call, feed, run>>

\* both handlers: the Newsday roundtable, made when three viewpoints were
\* generated and the three analysts' rows and the newsday persona are found
HandlerRoundtable(q, env) ==
  /\ req[q].pc = "roundtable"
  /\ \E response \in env.viewpoint, dbUp \in env.dbUp :
       LET found == /\ dbUp
                    /\ NewsdayPersona(db) # 0
                    /\ \A slug \in {"bill-russell", "drex-deford", "sarah-richardson"} :
                         \E i \in 1..Len(db.viewpoints) :
                           /\ db.viewpoints[i].articleId = req[q].articleId
                           /\ db.personas[db.viewpoints[i].personaId].slug = slug
           saved == found /\ response.kind = "json"
       IN /\ trace' = IF found
                      THEN Log(trace, PersonaEvent("roundtable", req[q].kind, q,
                                                   req[q].article, req[q].articleId,
                                                   NewsdayPersona(db)))
                      ELSE trace
          /\ db' = IF saved
                   THEN saveViewpoint(db, req[q].articleId, NewsdayPersona(db),
                                      response.viewpoint)
                   ELSE db
          /\ req' = [req EXCEPT ![q] =
                       [@ EXCEPT !.pc = "done",
                                 !.viewpointsGenerated = @ + (IF saved THEN 1 ELSE 0)]]
  /\ UNCHANGED <<vp, probe, call, feed, run>>

(***************************************************************************)
(* The viewpoint workflow: find-articles, generate-viewpoints,             *)
(* generate-briefs, log-viewpoint-completion, in this order.               *)
(***************************************************************************)
IdleViewpointRun ==
  [ pc |-> "idle", success |-> TRUE, personas |-> <<>>, articles |-> <<>>,
    idx |-> 0, slug |-> 0, processedArticles |-> <<>>,
    viewpointsGenerated |-> 0, briefsGenerated |-> 0, errors |-> 0,
    stmt |-> 0, result |-> <<>> ]

\* `getArticlesNeedingViewpoints(20)`
ViewpointQueryLimit == 20

OutputSlugsMutNoGeneralHit == <<"cio", "ciso", "sales-rep">>

\* Object.keys(OUTPUT_PERSONAS)
OutputSlugs == <<"cio", "ciso", "sales-rep", "general-hit">>

\* `output-${outputSlug}`
OutputPersonaSlug(outputSlug) ==
  CASE outputSlug = "cio" -> "output-cio"
    [] outputSlug = "ciso" -> "output-ciso"
    [] outputSlug = "sales-rep" -> "output-sales-rep"
    [] outputSlug = "general-hit" -> "output-general-hit"

\* findArticlesStep.execute; dbUp is false when initializeDatabase, logAction,
\* getPersonas or getArticlesNeedingViewpoints throws, which the step catches
FindArticles(v, env) ==
  /\ vp[v].pc = "idle"
  /\ \E dbUp \in env.dbUp :
       vp' = [vp EXCEPT ![v] =
                [@ EXCEPT !.pc = "generate",
                          !.success = dbUp,
                          !.personas = IF dbUp THEN getPersonas(db) ELSE <<>>,
                          !.articles = IF dbUp
                                       THEN getArticlesNeedingViewpoints(db, ViewpointQueryLimit)
                                       ELSE <<>>,
                          !.idx = 1]]
  /\ UNCHANGED <<db, feed, run, req, trace, call, probe>>

\* personaMap.get(analystSlug): the loaded persona of this slug, 0 when none
Analyst(d, personas, analystSlug) ==
  FirstRow({ personas[i] : i \in { j \in 1..Len(personas) :
                                     d.personas[personas[j]].slug = analystSlug } })

\* generateViewpointsStep.execute: one round of the loop; the call of the
\* model, a response without JSON and saveViewpoint throw into the catch of
\* the round
GenerateViewpoint(v, env) ==
  /\ vp[v].pc = "generate"
  /\ vp[v].success
  /\ vp[v].idx <= Len(vp[v].articles)
  /\ \E response \in env.viewpoint, dbUp \in env.dbUp :
       LET article == vp[v].articles[vp[v].idx]
           analystSlug == routeToAnalyst(article.topic_tags)
           analyst == Analyst(db, vp[v].personas, analystSlug)
           saved == analyst # 0 /\ response.kind = "json" /\ dbUp
       IN /\ db' = IF saved
                   THEN saveViewpoint(db, article.id, analyst, response.viewpoint)
                   ELSE db
          /\ vp' = [vp EXCEPT ![v] =
                      IF saved
                      THEN [@ EXCEPT !.idx = @ + 1,
                                     !.viewpointsGenerated = @ + 1,
                                     !.processedArticles =
                                        Append(@, [articleId |-> article.id,
                                                   analystSlug |-> analystSlug])]
                      ELSE [@ EXCEPT !.idx = @ + 1, !.errors = @ + 1]]
  /\ UNCHANGED <<feed, run, req, trace, call, probe>>

\* generateViewpointsStep.execute: the early return and the end of the loop;
\* generateBriefsStep.execute returns at once when no article was processed
ViewpointsDone(v) ==
  /\ vp[v].pc = "generate"
  /\ (vp[v].success /\ vp[v].articles # <<>>) => vp[v].idx > Len(vp[v].articles)
  /\ vp' = [vp EXCEPT ![v] =
              [@ EXCEPT !.pc = IF vp[v].processedArticles = <<>> THEN "log" ELSE "brief",
                        !.success = TRUE,
                        !.idx = 1,
                        !.slug = 1]]
  /\ UNCHANGED <<db, feed, run, req, trace, call, probe>>

\* SELECT id FROM personas WHERE slug = $1, and when no row is found
\* INSERT INTO personas (...) VALUES (..., true) ON CONFLICT (slug) DO UPDATE
EnsureOutputPersona(d, slug) ==
  IF PersonaId(d, slug) # 0 THEN d
  ELSE [d EXCEPT !.personas = Append(@, [slug |-> slug, enabled |-> TRUE])]

\* generateBriefsStep.execute: one round of the inner loop (one output persona
\* of one processed article); the call of the model, a response without JSON,
\* the persona insert and saveViewpoint throw into the catch of the round
GenerateBrief(v, env) ==
  /\ vp[v].pc = "brief"
  /\ \E response \in env.viewpoint, budget \in Budgets(env, 2) :
       LET article == vp[v].processedArticles[vp[v].idx]
           slug == OutputPersonaSlug(OutputSlugs[vp[v].slug])
           d1 == IF response.kind = "json" /\ budget >= 1
                 THEN EnsureOutputPersona(db, slug) ELSE db
           saved == response.kind = "json" /\ budget >= 2
           last == vp[v].slug = Len(OutputSlugs)
       IN /\ db' = IF saved
                   THEN saveViewpoint(d1, article.articleId, PersonaId(d1, slug),
                                      response.viewpoint)
                   ELSE d1
          /\ vp' = [vp EXCEPT ![v] =
                      [@ EXCEPT !.briefsGenerated = @ + (IF saved THEN 1 ELSE 0),
                                !.errors = @ + (IF saved THEN 0 ELSE 1),
                                !.slug = IF last THEN 1 ELSE @ + 1,
                                !.idx = IF last THEN @ + 1 ELSE @,
                                !.pc = IF last /\ vp[v].idx = Len(vp[v].processedArticles)
                                       THEN "log" ELSE "brief"]]
  /\ UNCHANGED <<feed, run, req, trace, call, probe>>

\* generateBriefsStep.execute: the end of a round of the inner loop
BriefRoundOver(rec, saved) ==
  LET last == rec.slug = Len(OutputSlugs)
  IN [rec EXCEPT !.briefsGenerated = @ + (IF saved THEN 1 ELSE 0),
                 !.errors = @ + (IF saved THEN 0 ELSE 1),
                 !.stmt = 0,
                 !.slug = IF last THEN 1 ELSE @ + 1,
                 !.idx = IF last THEN @ + 1 ELSE @,
                 !.pc = IF last /\ rec.idx = Len(rec.processedArticles)
                        THEN "log" ELSE "brief"]

InsertOutputPersonaMutNoConflictClause(d, slug) ==
  [d EXCEPT !.personas = Append(@, [slug |-> slug, enabled |-> TRUE])]

\* INSERT INTO personas (...) VALUES (..., true) ON CONFLICT (slug) DO UPDATE
\* SET updated_at = CURRENT_TIMESTAMP RETURNING id
InsertOutputPersona(d, slug) ==
  IF PersonaId(d, slug) # 0 THEN d
  ELSE [d EXCEPT !.personas = Append(@, [slug |-> slug, enabled |-> TRUE])]

\* generateBriefsStep.execute, a round statement by statement while another
\* run is in progress, 1: the call of the model and
\* SELECT id FROM personas WHERE slug = $1; stmt keeps the statement that
\* comes next (1 the insert of the persona, 2 saveViewpoint)
BriefSelectPersona(v, env) ==
  /\ vp[v].pc = "brief" /\ vp[v].stmt = 0
  /\ \E response \in env.viewpoint :
       LET slug == OutputPersonaSlug(OutputSlugs[vp[v].slug])
       IN vp' = [vp EXCEPT ![v] =
                   IF response.kind # "json" THEN BriefRoundOver(@, FALSE)
                   ELSE [@ EXCEPT !.stmt = IF PersonaId(db, slug) = 0 THEN 1 ELSE 2]]
  /\ UNCHANGED <<db, feed, run, req, trace, call, probe>>

\* 2: the insert of the output persona, when the select found no row
BriefInsertPersona(v) ==
  /\ vp[v].pc = "brief" /\ vp[v].stmt = 1
  /\ db' = InsertOutputPersona(db, OutputPersonaSlug(OutputSlugs[vp[v].slug]))
  /\ vp' = [vp EXCEPT ![v] = [@ EXCEPT !.stmt = 2]]
  /\ UNCHANGED <<feed, run, req, trace, call, probe>>

\* 3: saveViewpoint under the id the select or the insert returned
BriefSaveViewpoint(v, env) ==
  /\ vp[v].pc = "brief" /\ vp[v].stmt = 2
  /\ \E response \in { x \in env.viewpoint : x.kind = "json" } :
       db' = saveViewpoint(db, vp[v].processedArticles[vp[v].idx].articleId,
                           PersonaId(db, OutputPersonaSlug(OutputSlugs[vp[v].slug])),
                           response.viewpoint)
  /\ vp' = [vp EXCEPT ![v] = BriefRoundOver(@, TRUE)]
  /\ UNCHANGED <<feed, run, req, trace, call, probe>>

\* logViewpointCompletionStep.execute; logAction may throw, which nothing catches
LogViewpointCompletion(v, env) ==
  /\ vp[v].pc = "log"
  /\ \E dbUp \in env.dbUp :
       vp' = [vp EXCEPT ![v] =
                IF ~dbUp THEN [@ EXCEPT !.pc = "failed"]
                ELSE [@ EXCEPT !.pc = "done",
                               !.result =
                                  [totalViewpoints |-> vp[v].viewpointsGenerated
                                                         + vp[v].briefsGenerated,
                                   briefsGenerated |-> vp[v].briefsGenerated,
                                   errors |-> vp[v].errors,
                                   success |-> TRUE]]]
  /\ UNCHANGED <<db, feed, run, req, trace, call, probe>>

\* POST /api/viewpoints/generate: workflow.start of the viewpoint workflow once
\* more; the new run takes the place of run v, which has ended
TriggerViewpointRun(v) ==
  /\ vp[v].pc \in {"done", "failed"}
  /\ vp' = [vp EXCEPT ![v] = IdleViewpointRun]
  /\ UNCHANGED <<db, feed, run, req, trace, call, probe>>

(***************************************************************************)
(* The persistence layer called directly (its exported functions, which    *)
(* the databaseTool operations and the routes call with the ids that       *)
(* saveArticle returned).  `call` keeps the number of calls made, the last *)
(* call and the calls made before it.                                      *)
(***************************************************************************)
NoCall == [n |-> 0, last |-> <<>>, log |-> {}]

Made(c) == [n |-> call.n + 1, last |-> c, log |-> call.log \cup {call.last}]

DirectArticles ==
  { [url |-> "u1", title |-> "t1", content |-> "c1", contentHash |-> Md5("c1"),
     sourceId |-> 1, author |-> ""],
    [url |-> "u2", title |-> "t2", content |-> "c2", contentHash |-> Md5("c2"),
     sourceId |-> 1, author |-> ""] }

\* entity lists handed to saveEntities, already normalized
DirectEntities ==
  { [organizations |-> normalizeOrgs(<<Org(Cerner)>>), people |-> <<>>,
     technologies |-> <<>>],
    [organizations |-> <<>>, people |-> <<Person(JaneDoe, <<>>)>>,
     technologies |-> <<>>],
    [organizations |-> <<>>, people |-> <<>>,
     technologies |-> normalizeTech(<<Tech(FastHealthcareInteroperabilityResources, <<>>)>>)] }

DirectTexts == {"x", "y"}

DirectPersonas == {1, 2}

CallSaveArticle ==
  /\ call.n < MaxCalls
  /\ \E article \in DirectArticles :
       /\ db' = saveArticle(db, article)
       /\ call' = Made(<<"saveArticle", article.url, article.content>>)
  /\ UNCHANGED <<vp, probe, feed, run, req, trace>>

CallSaveEntities ==
  /\ call.n < MaxCalls
  /\ \E articleId \in 1..Len(db.articles), e \in DirectEntities :
       /\ db' = saveEntities(db, articleId, e.organizations, e.people, e.technologies,
                             EntityStatements(e.organizations, e.people,
                                              e.technologies)).db
       /\ call' = Made(<<"saveEntities", articleId, e>>)
  /\ UNCHANGED <<vp, probe, feed, run, req, trace>>

CallSaveSummary ==
  /\ call.n < MaxCalls
  /\ \E articleId \in 1..Len(db.articles), summary \in DirectTexts :
       /\ db' = saveSummary(db, articleId, summary, <<>>, 8, 2).db
       /\ call' = Made(<<"saveSummary", articleId, summary>>)
  /\ UNCHANGED <<vp, probe, feed, run, req, trace>>

\* context.data of a saveSummary operation: a score in the range, one above
\* it, and none
ToolSummaries ==
  { [summary |-> "x", relevanceScore |-> 8], [summary |-> "x", relevanceScore |-> 11],
    [summary |-> "x"] }

\* the researcher agent calls databaseTool with operation "saveSummary"
ToolSaveSummary ==
  /\ call.n < MaxCalls
  /\ \E articleId \in 1..Len(db.articles), data \in ToolSummaries :
       /\ db' = toolSaveSummary(db, articleId, data)
       /\ call' = Made(<<"databaseTool.saveSummary", articleId, data>>)
  /\ UNCHANGED <<vp, probe, feed, run, req, trace>>

CallSaveViewpoint ==
  /\ call.n < MaxCalls
  /\ \E articleId \in 1..Len(db.articles), personaId \in DirectPersonas,
        viewpointText \in DirectTexts :
       /\ db' = saveViewpoint(db, articleId, personaId, viewpointText)
       /\ call' = Made(<<"saveViewpoint", articleId, personaId, viewpointText>>)
  /\ UNCHANGED <<vp, probe, feed, run, req, trace>>

\* a saveEntities call in which the datastore fails before the last statement
CallSaveEntitiesInterrupted ==
  /\ call.n < MaxCalls
  /\ \E articleId \in 1..Len(db.articles), e \in DirectEntities :
       \E budget \in 0..(EntityStatements(e.organizations, e.people, e.technologies) - 1) :
         /\ db' = saveEntities(db, articleId, e.organizations, e.people, e.technologies,
                               budget).db
         /\ call' = Made(<<"saveEntities threw", articleId, e>>)
  /\ UNCHANGED <<vp, probe, feed, run, req, trace>>

\* the researcher agent calls databaseTool with operation
\* "updateArticleStatus": the status of context.data is written as given
ToolUpdateArticleStatus ==
  /\ call.n < MaxCalls
  /\ \E articleId \in 1..Len(db.articles), status \in {"extracted", "summarized"} :
       /\ db' = SetStatus(db, articleId, status)
       /\ call' = Made(<<"databaseTool.updateArticleStatus", articleId, status>>)
  /\ UNCHANGED <<vp, probe, feed, run, req, trace>>

(***************************************************************************)
(* A function of the program applied to one input: `probe` holds the input *)
(* and, once the function was applied, its result.                         *)
(***************************************************************************)
NoProbe == [applied |-> FALSE, input |-> <<>>, output |-> <<>>]

\* topic tags as a summary may carry them: two of the security domain (one
\* of them capitalized and padded), one of the leadership domain, one of no
\* domain, and one that names a member of Object.prototype
TagRansomware == <<"r","a","n","s","o","m","w","a","r","e">>
TagCyberSecurity == <<" ","C","y","b","e","r","S","e","c","u","r","i","t","y"," ">>
TagLeadership == <<"L","e","a","d","e","r","s","h","i","p">>
TagStrategy == <<"s","t","r","a","t","e","g","y">>
TagConstructor == <<"c","o","n","s","t","r","u","c","t","o","r">>

TagChoices == {TagRansomware, TagCyberSecurity, TagLeadership, TagStrategy, TagConstructor}

TagLists == UNION { [1..n -> TagChoices] : n \in 0..MaxTags }

\* generateViewpointsStep.execute: `const analystSlug = routeToAnalyst(topicTags)`
ApplyRouteToAnalyst ==
  /\ ~probe.applied
  /\ probe' = [probe EXCEPT !.applied = TRUE, !.output = routeToAnalyst(probe.input)]
  /\ UNCHANGED <<vp, db, feed, run, req, trace, call>>

\* getArticlesNeedingRoundtable called on the store as it is
CallGetArticlesNeedingRoundtable ==
  /\ probe' = [applied |-> TRUE, input |-> <<>>,
               output |-> getArticlesNeedingRoundtable(db)]
  /\ probe' # probe
  /\ UNCHANGED <<vp, db, feed, run, req, trace, call>>

(***************************************************************************)
(* The system: ingestion runs and requests against one store.              *)
(***************************************************************************)
InitWith(feeds) ==
  /\ db = EmptyDb
  /\ feed \in feeds
  /\ run = [r \in Runs |-> IdleRun]
  /\ req = [q \in Requests |-> IdleRequest]
  /\ trace = EmptyBag
  /\ vp = [v \in ViewpointRuns |-> IdleViewpointRun]
  /\ call = NoCall
  /\ probe = NoProbe

IngestionRun(r, env) ==
  \/ LoadSources(r, env)
  \/ MonitorSources(r, env)
  \/ FilterArticle(r, env)
  \/ FilterDone(r)
  \/ SaveArticle(r, env)
  \/ ExtractEntities(r, env)
  \/ Summarize(r, env)
  \/ StoreResults(r, env)

Request(q, env) ==
  \/ SubmitArticle(q)
  \/ SlackLink(q)
  \/ HandlerSaveArticle(q, env)
  \/ HandlerExtractEntities(q, env)
  \/ HandlerSummarize(q, env)
  \/ HandlerViewpoint(q, env)
  \/ HandlerRoundtable(q, env)

\* Scheduled ingestion: runs triggered one after the other over unchanged
\* feeds, with failing fetches and failing statements.
IngestionEnv ==
  [ extraction |-> { Json(<<Org(Cerner)>>, <<>>, <<>>) },
    summary |-> { SummaryJson(8) },
    viewpoint |-> { ViewpointJson("v") },
    dbUp |-> BOOLEAN, partial |-> FALSE, fetchFails |-> TRUE, overlap |-> FALSE ]

Init == InitWith(FeedChoices)

Next == \E r \in Runs : IngestionRun(r, IngestionEnv)

Spec == Init /\ [][Next]_vars

\* Topic routing alone, applied to every list of up to MaxTags tags.
InitRouting ==
  /\ db = EmptyDb
  /\ feed = <<<<>>, <<>>>>
  /\ run = [r \in Runs |-> IdleRun]
  /\ req = [q \in Requests |-> IdleRequest]
  /\ vp = [v \in ViewpointRuns |-> IdleViewpointRun]
  /\ trace = EmptyBag
  /\ call = NoCall
  /\ probe \in { [applied |-> FALSE, input |-> tags, output |-> <<>>] : tags \in TagLists }

NextRouting == ApplyRouteToAnalyst

SpecRouting == InitRouting /\ [][NextRouting]_vars

\* Normalization alone, the workflow's and the tool's, applied to the same
\* extracted entities: up to MaxMentions organizations, at most one person and
\* at most one technology.  The names are an alias of both tables (plain, and
\* in capitals with blanks around it), an alias of the tool's table only, a
\* name of no table, and a name that Object.prototype holds.
PaddedCerner == <<" ","C","E","R","N","E","R"," ">>
GoogleHealth == <<"G","o","o","g","l","e"," ","H","e","a","l","t","h">>
Acme == <<"A","c","m","e">>
Constructor == <<"C","o","n","s","t","r","u","c","t","o","r">>
Telemedicine == <<"T","e","l","e","m","e","d","i","c","i","n","e">>
Kubernetes == <<"K","u","b","e","r","n","e","t","e","s">>

OrgNames == {Cerner, PaddedCerner, GoogleHealth, Acme, Constructor}

OrgLists ==
  UNION { [1..n -> { Org(name) : name \in OrgNames }] : n \in 0..MaxMentions }

PeopleLists ==
  {<<>>} \cup { <<Person(JaneDoe, organization)>> :
                  organization \in {<<>>, OracleCerner, GoogleHealth, Acme} }

TechLists ==
  {<<>>} \cup { <<Tech(name, vendor)>> :
                  name \in {FastHealthcareInteroperabilityResources, Telemedicine,
                            Kubernetes},
                  vendor \in {<<>>, Cerner} }

NoEntities == [organizations |-> <<>>, people |-> <<>>, technologies |-> <<>>]

InitNormalizer ==
  /\ db = EmptyDb
  /\ feed \in {<<<<>>, <<>>>>}
  /\ run = [r \in Runs |-> IdleRun]
  /\ req = [q \in Requests |-> IdleRequest]
  /\ vp = [v \in ViewpointRuns |-> IdleViewpointRun]
  /\ trace = EmptyBag
  /\ call = NoCall
  /\ \E organizations \in OrgLists, people \in PeopleLists, technologies \in TechLists :
       probe = [applied |-> {},
                input |-> Json(organizations, people, technologies),
                output |-> [workflow |-> NoEntities, tool |-> NoEntities]]

\* processArticlesStep.execute: the normalization of the extracted entities
ApplyInlineNormalization ==
  /\ "workflow" \notin probe.applied
  /\ probe' = [probe EXCEPT !.applied = @ \cup {"workflow"},
                            !.output.workflow = inlineNormalization(probe.input)]
  /\ UNCHANGED <<vp, db, feed, run, req, trace, call>>

\* entityNormalizerTool.execute on the same entities
ApplyEntityNormalizerTool ==
  /\ "tool" \notin probe.applied
  /\ probe' = [probe EXCEPT !.applied = @ \cup {"tool"},
                            !.output.tool = [organizations |-> entityNormalizerTool(probe.input).organizations,
                                             people |-> entityNormalizerTool(probe.input).people,
                                             technologies |-> entityNormalizerTool(probe.input).technologies]]
  /\ UNCHANGED <<vp, db, feed, run, req, trace, call>>

NextNormalizer == ApplyInlineNormalization \/ ApplyEntityNormalizerTool

SpecNormalizer == InitNormalizer /\ [][NextNormalizer]_vars

\* The persistence layer alone, called directly.
InitStore == InitWith({<<<<>>, <<>>>>})

NextStore ==
  \/ CallSaveArticle
  \/ CallSaveEntities
  \/ CallSaveSummary
  \/ ToolSaveSummary
  \/ CallSaveViewpoint

SpecStore == InitStore /\ [][NextStore]_vars

\* The calls that write an article's processing status: saveEntities (to its
\* end, or interrupted), saveSummary and the databaseTool operation.
NextStatus ==
  \/ CallSaveArticle
  \/ CallSaveEntities
  \/ CallSaveEntitiesInterrupted
  \/ CallSaveSummary
  \/ ToolUpdateArticleStatus

SpecStatus == InitStore /\ [][NextStatus]_vars

\* The alias spellings of one organization, met by ingestion in the three
\* articles of one feed; any statement of saveEntities or saveSummary may fail.
AliasEnv ==
  [ extraction |-> { Json(<<Org(Cerner)>>, <<>>, <<>>),
                     Json(<<Org(CernerCorporation)>>, <<Person(JaneDoe, OracleCerner)>>, <<>>),
                     Json(<<Org(OracleCerner)>>, <<>>,
                          <<Tech(FastHealthcareInteroperabilityResources, <<>>)>>) },
    summary |-> { SummaryJson(8) },
    viewpoint |-> { Prose, ViewpointJson("v") },
    dbUp |-> {TRUE}, partial |-> TRUE, fetchFails |-> FALSE, overlap |-> FALSE ]

InitAliases == InitWith({<<<<I1, I2, I3>>, <<>>>>})

NextAliases == IngestionRun(1, AliasEnv)

SpecAliases == InitAliases /\ [][NextAliases]_vars

\* The three entry paths against one store: an ingestion run and, next to
\* it, requests of the manual-submission and the Slack handlers.
EntryEnv ==
  [ extraction |-> { Json(<<Org(Cerner)>>, <<>>, <<>>),
                     Json(<<Org(OracleCerner)>>, <<>>, <<>>) },
    summary |-> { SummaryJson(8) },
    viewpoint |-> { Prose, ViewpointJson("v") },
    dbUp |-> {TRUE}, partial |-> FALSE, fetchFails |-> FALSE, overlap |-> FALSE ]

NextEntryPaths ==
  \/ IngestionRun(1, EntryEnv)
  \/ \E q \in Requests : Request(q, EntryEnv)

SpecEntryPaths == InitAliases /\ [][NextEntryPaths]_vars

\* Scheduled ingestion of articles that name one organization by two of its
\* alias spellings, and one technology by an alias and by its canonical name.
DuplicateEnv ==
  [ extraction |-> { Json(<<Org(Cerner), Org(OracleCerner)>>, <<>>,
                          <<Tech(FastHealthcareInteroperabilityResources, <<>>),
                            Tech(FHIR, <<>>)>>) },
    summary |-> { SummaryJson(8) },
    viewpoint |-> { ViewpointJson("v") },
    dbUp |-> {TRUE}, partial |-> FALSE, fetchFails |-> TRUE, overlap |-> FALSE ]

NextDuplicates == \E r \in Runs : IngestionRun(r, DuplicateEnv)

SpecDuplicates == Init /\ [][NextDuplicates]_vars

\* Persona analysis: summaries are scored on either side of the threshold and
\* the viewpoint and brief calls may answer without JSON; the extraction call
\* answers by prose or reports an organization with a confidence of 1.5.
ViewpointEnv ==
  [ extraction |-> { Prose, Json(<<[Org(Cerner) EXCEPT !.confidence = 150]>>, <<>>, <<>>) },
    summary |-> { SummaryJson(5), [SummaryJson(6) EXCEPT !.tags = <<TagRansomware>>] },
    viewpoint |-> { Prose, ViewpointJson("v") },
    dbUp |-> {TRUE}, partial |-> FALSE, fetchFails |-> FALSE, overlap |-> FALSE ]

ViewpointRun(v, env) ==
  \/ FindArticles(v, env)
  \/ GenerateViewpoint(v, env)
  \/ ViewpointsDone(v)
  \/ GenerateBrief(v, env)
  \/ LogViewpointCompletion(v, env)

InitViewpoints == InitWith({<<<<I1, I3>>, <<>>>>})

\* an ingestion run over two articles, and viewpoint runs triggered next to it
NextViewpoints ==
  \/ IngestionRun(1, ViewpointEnv)
  \/ ViewpointRun(1, ViewpointEnv)

SpecViewpoints == InitViewpoints /\ [][NextViewpoints]_vars

\* an ingestion run, and viewpoint runs triggered one after the other
NextViewpointReruns ==
  \/ IngestionRun(1, ViewpointEnv)
  \/ ViewpointRun(1, ViewpointEnv)
  \/ TriggerViewpointRun(1)

SpecViewpointReruns == InitViewpoints /\ [][NextViewpointReruns]_vars

\* the entry paths that generate viewpoints: requests of the manual-submission
\* and the Slack handlers, and viewpoint runs triggered next to them
NextAnalysisPaths ==
  \/ \E q \in Requests : Request(q, ViewpointEnv)
  \/ ViewpointRun(1, ViewpointEnv)

SpecAnalysisPaths == InitViewpoints /\ [][NextAnalysisPaths]_vars

\* the same entry paths, and the roundtable query made at any moment
NextRoundtable ==
  \/ \E q \in Requests : Request(q, ViewpointEnv)
  \/ ViewpointRun(1, ViewpointEnv)
  \/ CallGetArticlesNeedingRoundtable

SpecRoundtable == InitViewpoints /\ [][NextRoundtable]_vars

\* Viewpoint runs over articles one of whose summaries carries a topic tag
\* that routes to no analyst persona.
UnknownSlugEnv ==
  [ extraction |-> { Prose },
    summary |-> { SummaryJson(8), [SummaryJson(8) EXCEPT !.tags = <<TagConstructor>>] },
    viewpoint |-> { ViewpointJson("v") },
    dbUp |-> {TRUE}, partial |-> FALSE, fetchFails |-> FALSE, overlap |-> FALSE ]

NextUnknownSlug ==
  \/ IngestionRun(1, UnknownSlugEnv)
  \/ ViewpointRun(1, UnknownSlugEnv)

SpecUnknownSlug == InitViewpoints /\ [][NextUnknownSlug]_vars

\* Two overlapping ingestion runs over the same feed, statement by statement:
\* the feed lists one article, and the extraction names one organization and
\* one technology by an alias.
OverlapEnv ==
  [ extraction |-> { Json(<<Org(Cerner)>>, <<>>,
                          <<Tech(FastHealthcareInteroperabilityResources, <<>>)>>) },
    summary |-> { SummaryJson(8) },
    viewpoint |-> { ViewpointJson("v") },
    dbUp |-> {TRUE}, partial |-> FALSE, fetchFails |-> FALSE, overlap |-> TRUE ]

InitOverlap == InitWith({<<<<I1>>, <<>>>>})

NextOverlap ==
  \E r \in Runs :
    \/ IngestionRun(r, OverlapEnv)
    \/ SaveEntitiesStatement(r, OverlapEnv)
    \/ SaveSummaryStatement(r, OverlapEnv)

SpecOverlap == InitOverlap /\ [][NextOverlap]_vars

\* Overlapping viewpoint runs, their brief rounds interleaved statement by
\* statement, after an ingestion run over a feed of one article; an ended
\* viewpoint run may be triggered again.
BriefOverlapEnv ==
  [ extraction |-> { Prose },
    summary |-> { SummaryJson(8) },
    viewpoint |-> { ViewpointJson("v") },
    dbUp |-> {TRUE}, partial |-> FALSE, fetchFails |-> FALSE, overlap |-> FALSE ]

NextBriefOverlap ==
  \/ IngestionRun(1, BriefOverlapEnv)
  \/ \E v \in ViewpointRuns :
       \/ FindArticles(v, BriefOverlapEnv)
       \/ GenerateViewpoint(v, BriefOverlapEnv)
       \/ ViewpointsDone(v)
       \/ BriefSelectPersona(v, BriefOverlapEnv)
       \/ BriefInsertPersona(v)
       \/ BriefSaveViewpoint(v, BriefOverlapEnv)
       \/ LogViewpointCompletion(v, BriefOverlapEnv)
       \/ TriggerViewpointRun(v)

SpecBriefOverlap == InitOverlap /\ [][NextBriefOverlap]_vars

(***************************************************************************)
(* Properties of duplicate detection and of the ingestion run.             *)
(***************************************************************************)
\* some persisted article has this content hash or this URL
Persisted(d, a) ==
  \E i \in 1..Len(d.articles) :
    d.articles[i].contentHash = a.contentHash \/ d.articles[i].url = a.url

\* the filter of run r has looked at every candidate
Filtered(r) == run[r].pc \in {"save", "extract", "summarize", "store", "done"}

AllSources == { i \in 1..Len(db.sources) : db.sources[i].enabled }

\* the number of events of the history among `events`
RECURSIVE Copies(_)
Copies(events) ==
  IF events = {} THEN 0
  ELSE LET e == CHOOSE x \in events : TRUE
       IN CopiesIn(e, trace) + Copies(events \ {e})

\* the model calls `op` that ingestion runs made
IngestionCalls(op) ==
  { e \in BagToSet(trace) : e.op = op /\ e.path = "ingestion" }

\* C1: checkArticleExists answers exists = true exactly when some persisted
\* article has the candidate's content hash or its URL, and a round of the
\* filter keeps the candidate iff the answer is exists = false, counting
\* every other candidate in duplicatesSkipped.
C1_FilterKeepsIffNotPersisted ==
  [][\A r \in Runs :
       (run[r].pc = "filter" /\ run'[r].pc = "filter"
          /\ run'[r].idx = run[r].idx + 1) =>
         LET a == run[r].articles[run[r].idx]
         IN /\ checkArticleExists(db, a.contentHash, a.url).exists = Persisted(db, a)
            /\ IF Persisted(db, a)
               THEN /\ run'[r].newArticles = run[r].newArticles
                    /\ run'[r].duplicatesSkipped = run[r].duplicatesSkipped + 1
               ELSE /\ run'[r].newArticles = Append(run[r].newArticles, a)
                    /\ run'[r].duplicatesSkipped = run[r].duplicatesSkipped]_vars

\* a run whose filter kept one candidate and skipped another
C1_Witness ==
  \E r \in Runs :
    /\ Filtered(r)
    /\ run[r].duplicatesSkipped >= 1
    /\ run[r].newArticles # <<>>
    /\ run[r].duplicatesSkipped + Len(run[r].newArticles) = Len(run[r].articles)

\* the earlier run o fetched every source and persisted every candidate
FirstPassComplete(o) ==
  /\ run[o].pc = "done"
  /\ run[o].fetched = AllSources
  /\ run[o].errors = 0

OneOfThreeStored(r) ==
  /\ feed = <<<<I1, I2, I3>>, <<>>>>
  /\ run[r].pc = "done"
  /\ 1 \in run[r].fetched
  /\ { s.url : s \in run[r].stored } = {I2.url}
  /\ { s.contentHash : s \in run[r].stored } \cap {Md5(I1.content), Md5(I3.content)} = {}

\* the articles run r made the model call `op` for, once each
CalledOnceFor(r, op, urls) ==
  /\ { e.url : e \in { x \in IngestionCalls(op) : x.actor = r } } = urls
  /\ Copies({ x \in IngestionCalls(op) : x.actor = r }) = Cardinality(urls)

C4_AtMostOnePassPerContent ==
  \A op \in {"extract", "summarize"} :
    \A e \in IngestionCalls(op) :
      /\ Copies({ x \in IngestionCalls(op) : x.url = e.url }) <= 1
      /\ Copies({ x \in IngestionCalls(op) : x.content = e.content }) <= 1

\* C5: the processing status of an article never moves back along
\* scraped -> extracted -> summarized.
C5_StatusMonotonic ==
  [][\A i \in 1..Len(db.articles) :
       StatusRank(db'.articles[i].status) >= StatusRank(db.articles[i].status)]_vars

(***************************************************************************)
(* Properties of the persistence layer.                                    *)
(***************************************************************************)
Tables ==
  { "sources", "articles", "organizations", "people", "technologies",
    "article_organizations", "article_people", "article_technologies",
    "summaries", "personas", "viewpoints" }

\* the last direct call repeats, with the same inputs, a call made before it
Repeated == call.n >= 2 /\ call.last \in call.log

ViewpointRows(articleId, personaId) ==
  { i \in 1..Len(db.viewpoints) :
      db.viewpoints[i].articleId = articleId /\ db.viewpoints[i].personaId = personaId }

\* C6: the viewpoints table holds at most one row per (articleId, personaId)
\* after any sequence of saveViewpoint calls, and after a save for a pair its
\* one row carries the text of that save.
C6_OneViewpointPerPair ==
  /\ \A i \in 1..Len(db.viewpoints), j \in 1..Len(db.viewpoints) :
       (db.viewpoints[i].articleId = db.viewpoints[j].articleId
          /\ db.viewpoints[i].personaId = db.viewpoints[j].personaId) => i = j
  /\ (call.n >= 1 /\ call.last[1] = "saveViewpoint") =>
       /\ Cardinality(ViewpointRows(call.last[2], call.last[3])) = 1
       /\ \A i \in ViewpointRows(call.last[2], call.last[3]) :
            db.viewpoints[i].viewpointText = call.last[4]

\* a second save for a pair, with another text than the first
C6_Witness ==
  /\ call.n >= 2 /\ call.last[1] = "saveViewpoint"
  /\ \E c \in call.log :
       /\ c # <<>> /\ c[1] = "saveViewpoint"
       /\ c[2] = call.last[2] /\ c[3] = call.last[3] /\ c[4] # call.last[4]
  /\ Len(db.viewpoints) = 1

LinkedOnce(table) ==
  \A i \in 1..Len(table), j \in 1..Len(table) :
    (table[i].articleId = table[j].articleId /\ table[i].entityId = table[j].entityId)
      => i = j

\* C7: saveEntities called again with the same (article, organization) link
\* leaves one row for the link in article_organizations, and likewise one row
\* for an (article, technology) link in article_technologies.
C7_OneJunctionRowPerLink ==
  /\ LinkedOnce(db.article_organizations)
  /\ LinkedOnce(db.article_technologies)
  /\ (Repeated /\ call.last[1] = "saveEntities") =>
       /\ call.last[3].organizations # <<>> =>
            Cardinality({ i \in 1..Len(db.article_organizations) :
                            db.article_organizations[i].articleId = call.last[2] }) = 1
       /\ call.last[3].technologies # <<>> =>
            Cardinality({ i \in 1..Len(db.article_technologies) :
                            db.article_technologies[i].articleId = call.last[2] }) = 1

\* saveEntities called a second time with the same article and organization
C7_Witness ==
  /\ Repeated /\ call.last[1] = "saveEntities"
  /\ call.last[3].organizations # <<>>
  /\ Len(db.article_organizations) = 1

\* C8: a persistence call repeated with the same inputs adds no row to any
\* table.
C8_RepeatedCallAddsNoRow ==
  [][(call'.n = call.n + 1 /\ call'.last \in call'.log) =>
       \A t \in Tables : Len(db'[t]) = Len(db[t])]_vars

(***************************************************************************)
(* Properties of entity canonicalization.                                  *)
(***************************************************************************)
\* the spellings under which the model may mention Oracle Health
CernerSpellings == {Cerner, CernerCorporation, OracleCerner}

\* the rows of organizations named Oracle Health or by one of its spellings
OracleHealthRows ==
  { i \in 1..Len(db.organizations) :
      db.organizations[i].canonicalName \in CernerSpellings \cup {OracleHealth} }

\* the completed saveEntities calls of an entry path among `paths` whose
\* response mentioned Oracle Health under one of its spellings
AliasMentions(paths) ==
  { e \in BagToSet(trace) :
      e.op = "saveEntities" /\ e.path \in paths /\ e.mentions \cap CernerSpellings # {} }

\* the mentions of `events` resolve to one row, named Oracle Health, that
\* each of their articles is linked to
ResolveToOneRow(events) ==
  events # {} =>
    /\ Cardinality(OracleHealthRows) = 1
    /\ \A i \in OracleHealthRows : db.organizations[i].canonicalName = OracleHealth
    /\ \A e \in events :
         \E k \in 1..Len(db.article_organizations) :
           /\ db.article_organizations[k].articleId = e.articleId
           /\ db.article_organizations[k].entityId \in OracleHealthRows

\* C9: organizations mentioned as "Cerner", "Cerner Corporation" and "Oracle
\* Cerner" in articles processed by the ingestion pipeline resolve to exactly
\* one Organization row, of canonical name "Oracle Health", linked to each of
\* these articles.
C9_IngestionResolvesAliases == ResolveToOneRow(AliasMentions({"ingestion"}))

\* three articles, each mentioning the organization under another spelling
C9_Witness ==
  /\ \A m \in CernerSpellings :
       \E e \in AliasMentions({"ingestion"}) : m \in e.mentions
  /\ Cardinality({ e.articleId : e \in AliasMentions({"ingestion"}) }) = 3
  /\ Len(db.article_organizations) = 3
  /\ Len(db.organizations) = 1

\* C10: whichever entry path persisted an article's entities, the mentions of
\* an aliased organization resolve to one Organization row keyed by its
\* canonical name.
C10_EveryPathResolvesAliases ==
  ResolveToOneRow(AliasMentions({"ingestion", "submit", "slack"}))

(***************************************************************************)
(* Properties of topic routing.                                            *)
(***************************************************************************)
\* the analyst whose domain the tag belongs to, "" for a tag of no domain
Domain(tag) ==
  LET normalizedTag == trim(toLowerCase(tag))
  IN IF Has(TOPIC_TO_ANALYST, normalizedTag) THEN Get(TOPIC_TO_ANALYST, normalizedTag)
     ELSE ""

\* the number of tags of the list that belong to the analyst's domain
Matches(topicTags, analyst) ==
  Cardinality({ i \in 1..Len(topicTags) : Domain(topicTags[i]) = analyst })

\* C11: a list whose matching tags all belong to the security domain is
\* routed to drex-deford, and an empty list or a list with no matching tag is
\* routed to the default bill-russell; matching ignores case and surrounding
\* whitespace.
C11_RoutingByDomain ==
  probe.applied =>
    /\ (Matches(probe.input, "drex-deford") >= 1
          /\ Matches(probe.input, "sarah-richardson") = 0)
         => probe.output = "drex-deford"
    /\ (Matches(probe.input, "drex-deford") = 0
          /\ Matches(probe.input, "sarah-richardson") = 0)
         => probe.output = "bill-russell"

\* C12: when two analysts tie for the highest score the list is routed to
\* the default bill-russell, whatever the order of the tags.
C12_TieRoutesToDefault ==
  (probe.applied
     /\ Matches(probe.input, "drex-deford") >= 1
     /\ Matches(probe.input, "drex-deford") = Matches(probe.input, "sarah-richardson"))
    => probe.output = "bill-russell"

(***************************************************************************)
(* Properties of persona analysis.                                         *)
(***************************************************************************)
AnalystSlugs == {"bill-russell", "drex-deford", "sarah-richardson"}

\* some viewpoint of one of the three analysts is persisted for the article
HasAnalystViewpoint(d, articleId) ==
  \E i \in 1..Len(d.viewpoints) :
    /\ d.viewpoints[i].articleId = articleId
    /\ d.personas[d.viewpoints[i].personaId].slug \in AnalystSlugs

\* the article ids of the rows a query returned
Returned(rows) == { rows[k].id : k \in 1..Len(rows) }

\* this step is find-articles of viewpoint run v, and its queries succeeded
Found(v) == vp[v].pc = "idle" /\ vp'[v].pc = "generate" /\ vp'[v].success

\* C13: the selection of a viewpoint run never returns an article whose
\* summary is scored 5, and returns every article whose summary is scored 6
\* and that has no analyst viewpoint, as long as the rows fit the query limit.
C13_SelectionCutoffAtSix ==
  [][\A v \in ViewpointRuns : Found(v) =>
       \A i \in 1..Len(db.summaries) :
         /\ db.summaries[i].relevanceScore = 5
              => db.summaries[i].articleId \notin Returned(vp'[v].articles)
         /\ ( /\ db.summaries[i].relevanceScore = 6
              /\ ~HasAnalystViewpoint(db, db.summaries[i].articleId)
              /\ Len(db.summaries) <= ViewpointQueryLimit )
              => db.summaries[i].articleId \in Returned(vp'[v].articles)]_vars

\* a viewpoint run selected an article scored 6 and left out one scored 5
C13_Witness ==
  \E v \in ViewpointRuns :
    /\ vp[v].pc = "generate"
    /\ \E k \in 1..Len(vp[v].articles) : vp[v].articles[k].relevance_score = 6
    /\ \E i \in 1..Len(db.summaries) :
         /\ db.summaries[i].relevanceScore = 5
         /\ db.summaries[i].articleId \notin Returned(vp[v].articles)

\* C14: every persisted analyst viewpoint and every persisted output brief
\* belongs to an article that has a summary scored 6 or more, whichever
\* entry path stored it.
C14_AnalysisOnlyFromSix ==
  \A i \in 1..Len(db.viewpoints) :
    db.personas[db.viewpoints[i].personaId].slug # "newsday" =>
      \E j \in 1..Len(db.summaries) :
        /\ db.summaries[j].articleId = db.viewpoints[i].articleId
        /\ db.summaries[j].relevanceScore >= 6

(***************************************************************************)
(* Properties of failure handling.                                         *)
(***************************************************************************)
\* the junction rows of an article
LinksOf(d, articleId) ==
  Cardinality({ i \in 1..Len(d.article_organizations) :
                  d.article_organizations[i].articleId = articleId })
  + Cardinality({ i \in 1..Len(d.article_people) :
                    d.article_people[i].articleId = articleId })
  + Cardinality({ i \in 1..Len(d.article_technologies) :
                    d.article_technologies[i].articleId = articleId })

\* this step is the extraction stage of run r, answered by prose
ProseExtraction(r) ==
  run[r].pc = "extract" /\ run'[r].pc = "summarize" /\ run'[r].answered = "prose"

\* this step is the summary stage of run r for an article whose extraction
\* call answered by prose, and it persisted the summary
SummarizedAfterProse(r) ==
  /\ run[r].pc = "summarize" /\ run[r].answered = "prose"
  /\ Len(run'[r].processedArticles) = Len(run[r].processedArticles) + 1
  /\ run'[r].processedArticles[Len(run'[r].processedArticles)].hasSummary

\* C15: an extraction call answered by prose leaves the article with no
\* extracted entity and exactly one more logged warning, the run goes on, and
\* when the summary is then persisted the article is "summarized".
C15_ProseExtractionContained ==
  [][\A r \in Runs :
       /\ ProseExtraction(r) =>
            /\ run'[r].entitiesExtracted = 0
            /\ LinksOf(db', run[r].articleId) = LinksOf(db, run[r].articleId)
            /\ run'[r].warnings = run[r].warnings + 1
       /\ SummarizedAfterProse(r) =>
            /\ db'.articles[run[r].articleId].status = "summarized"
            /\ run'[r].pc # "failed"]_vars

\* the candidates a run holds from one source
CandidatesFrom(articles, sourceId) ==
  { articles[i] : i \in { j \in 1..Len(articles) : articles[j].sourceId = sourceId } }

\* the candidates a source lists
Listed(sourceId) ==
  LET items == scrape(feed[sourceId], FetchCap, sourceId)
  IN { items[i] : i \in 1..Len(items) }

\* this step is monitor-sources of run r over the sources it loaded
Monitored(r) ==
  run[r].pc = "monitor" /\ run[r].success /\ run[r].sources # <<>> /\ run'[r].pc # "monitor"

\* C16: monitor-sources goes on to the filter step whichever fetches failed; a
\* source whose fetch failed contributes no candidate and every other
\* enabled source contributes the candidates it lists.
C16_FetchFailureIsLocal ==
  [][\A r \in Runs : Monitored(r) =>
       /\ run'[r].pc = "filter"
       /\ \A i \in 1..Len(run[r].sources) :
            LET sourceId == run[r].sources[i]
            IN CandidatesFrom(run'[r].articles, sourceId)
                 = IF sourceId \in run'[r].fetched THEN Listed(sourceId) ELSE {}]_vars

\* the fetch of the first source failed, the second source was fetched and
\* its candidate went through the run
C16_Witness ==
  \E r \in Runs :
    /\ run[r].pc = "done"
    /\ Len(run[r].sources) = 2
    /\ run[r].sources[1] \notin run[r].fetched
    /\ run[r].sources[2] \in run[r].fetched
    /\ CandidatesFrom(run[r].articles, run[r].sources[2]) # {}

\* the sources of run r whose fetch failed
FailedFetches(r) ==
  Cardinality({ i \in 1..Len(run[r].sources) : run[r].sources[i] \notin run[r].fetched })

\* C17: the errors counter of a run summary counts every item that failed in
\* the ingestion run: the failed source fetches, the articles whose saveArticle
\* threw (run.errors) and the failed model calls and saveEntities or
\* saveSummary calls (run.warnings).
C17_ItemErrorsCounted ==
  \A r \in Runs :
    run[r].pc = "done" =>
      run[r].result.errors = FailedFetches(r) + run[r].errors + run[r].warnings

\* C18: an ingestion run whose load-sources step could not reach the
\* datastore never completes with a run summary of status success.
C18_LoadFailureEndsInError ==
  \A r \in Runs :
    (run[r].loadFailed /\ run[r].pc = "done") => ~run[r].result.success

(***************************************************************************)
(* Properties of overlapping runs.                                         *)
(***************************************************************************)
\* C19: whatever the interleaving of the statements of overlapping ingestion
\* runs over the same candidates, the store holds at most one article per
\* URL, one summary per article, one organization and one technology per
\* canonical name, and one junction row per (article, entity) pair.
C19_OverlapKeepsRowsUnique ==
  /\ \A i \in 1..Len(db.articles), j \in 1..Len(db.articles) :
       db.articles[i].url = db.articles[j].url => i = j
  /\ \A i \in 1..Len(db.summaries), j \in 1..Len(db.summaries) :
       db.summaries[i].articleId = db.summaries[j].articleId => i = j
  /\ \A i \in 1..Len(db.organizations), j \in 1..Len(db.organizations) :
       db.organizations[i].canonicalName = db.organizations[j].canonicalName => i = j
  /\ \A i \in 1..Len(db.technologies), j \in 1..Len(db.technologies) :
       db.technologies[i].name = db.technologies[j].name => i = j
  /\ LinkedOnce(db.article_organizations)
  /\ LinkedOnce(db.article_people)
  /\ LinkedOnce(db.article_technologies)

\* two runs overlapped, each processed the candidates, and the store holds
\* the article, its summary, the organization, the technology and their links
C19_Witness ==
  \E r \in Runs, o \in Runs :
    /\ r # o
    /\ run[r].pc = "done" /\ run[o].pc = "done"
    /\ o \notin run[r].after /\ r \notin run[o].after
    /\ Len(run[r].processedArticles) = 1 /\ Len(run[o].processedArticles) = 1
    /\ Len(db.articles) = 1 /\ Len(db.summaries) = 1
    /\ Len(db.organizations) = 1 /\ Len(db.technologies) = 1
    /\ Len(db.article_organizations) = 1 /\ Len(db.article_technologies) = 1

(***************************************************************************)
(* Properties of the stored values.                                        *)
(***************************************************************************)
\* C20: every row of summaries holds an integer relevance score from 1 to 10,
\* whatever score the model reported or left out.
C20_StoredScoreInRange ==
  \A i \in 1..Len(db.summaries) : db.summaries[i].relevanceScore \in 1..10

\* the confidences of the rows of a junction table
Confidences(table) == { table[i].confidence : i \in 1..Len(table) }

\* C21: the confidence of every row of article_organizations, article_people
\* and article_technologies lies in [0,1] (0..100 hundredths), whatever
\* confidence the model reported.
C21_StoredConfidenceInRange ==
  Confidences(db.article_organizations) \cup Confidences(db.article_people)
    \cup Confidences(db.article_technologies) \subseteq 0..100

\* this step is a saveEntities call given a person whose name a row of people
\* already holds
SavesKnownPerson ==
  /\ call'.n = call.n + 1 /\ call'.last[1] = "saveEntities"
  /\ \E k \in 1..Len(call'.last[3].people), i \in 1..Len(db.people) :
       db.people[i].name = call'.last[3].people[k].name

\* C22: saveEntities given a person whose name matches an existing row of
\* people inserts no second row of that name and links the article to the
\* existing row.
C22_ExistingPersonIsReused ==
  [][SavesKnownPerson =>
       /\ Len(db'.people) = Len(db.people)
       /\ \A k \in 1..Len(call'.last[3].people) :
            \E i \in 1..Len(db.people), l \in 1..Len(db'.article_people) :
              /\ db.people[i].name = call'.last[3].people[k].name
              /\ db'.article_people[l].articleId = call'.last[2]
              /\ db'.article_people[l].entityId = i]_vars

(***************************************************************************)
(* Properties of recovery and of the order of the work.                    *)
(***************************************************************************)
\* run r was triggered after another run had ended, and completed with every
\* source fetched and no failed call or statement
CleanRerun(r) ==
  /\ run[r].pc = "done" /\ run[r].after # {}
  /\ ~run[r].loadFailed /\ FailedFetches(r) = 0
  /\ run[r].errors = 0 /\ run[r].warnings = 0

\* C23: once a re-run over the same sources has completed without a failure,
\* every persisted article the sources list is "summarized", also an article
\* an earlier run persisted and then left without entities or summary.
C23_RerunCompletesEnrichment ==
  \A r \in Runs :
    CleanRerun(r) =>
      \A i \in 1..Len(db.articles) : db.articles[i].status = "summarized"

\* the persona slugs of the four output personas
BriefSlugs == {"output-cio", "output-ciso", "output-sales-rep", "output-general-hit"}

\* a brief of this output persona is persisted for the article
HasBrief(d, articleId, slug) ==
  \E i \in 1..Len(d.viewpoints) :
    /\ d.viewpoints[i].articleId = articleId
    /\ d.personas[d.viewpoints[i].personaId].slug = slug

\* the article ids of the articles whose analyst viewpoint run v persisted
ProcessedIds(v) ==
  { vp[v].processedArticles[k].articleId : k \in 1..Len(vp[v].processedArticles) }

\* the rounds of generate-viewpoints of run v that failed
FailedViewpoints(v) == Len(vp[v].articles) - Len(vp[v].processedArticles)

\* the brief step of run v is over
Briefed(v) == vp[v].pc \in {"log", "done"}

\* this step is a round of generate-briefs of run v
BriefRound(v) == vp[v].pc = "brief" /\ vp'[v] # vp[v]

\* the rows of the viewpoints table this step wrote
Written == { i \in 1..Len(db'.viewpoints) :
               i > Len(db.viewpoints) \/ db'.viewpoints[i] # db.viewpoints[i] }

Qualifying(d) ==
  { d.summaries[i].articleId : i \in { j \in 1..Len(d.summaries) :
                                         d.summaries[j].relevanceScore >= 6 } }

\* C25: the selection of a viewpoint run returns no article for which an
\* analyst viewpoint is persisted, and returns every article that has a
\* summary scored 6 or more and no analyst viewpoint (as long as the rows fit
\* the query limit), also when earlier runs have processed other articles.
C25_ViewpointedArticleNotReselected ==
  [][\A v \in ViewpointRuns : Found(v) =>
       /\ \A a \in Returned(vp'[v].articles) : ~HasAnalystViewpoint(db, a)
       /\ Cardinality(Qualifying(db)) <= ViewpointQueryLimit =>
            \A a \in Qualifying(db) :
              ~HasAnalystViewpoint(db, a) => a \in Returned(vp'[v].articles)]_vars

\* a later run has just selected the article an earlier run failed on, and
\* left out the article whose analyst viewpoint the earlier run persisted
C25_Witness ==
  \E v \in ViewpointRuns :
    /\ vp[v].pc = "generate" /\ vp[v].idx = 1
    /\ Returned(vp[v].articles) # {}
    /\ \A a \in Returned(vp[v].articles) : ~HasAnalystViewpoint(db, a)
    /\ \E a \in Qualifying(db) :
         HasAnalystViewpoint(db, a) /\ a \notin Returned(vp[v].articles)

\* viewpoints of all three analysts are persisted for the article
HasAllAnalystViewpoints(d, articleId) ==
  \A slug \in AnalystSlugs : HasBrief(d, articleId, slug)

\* C26: an article with a newsday viewpoint has the viewpoints of all three
\* analysts, and getArticlesNeedingRoundtable returns only articles that have
\* the viewpoints of all three analysts and no newsday viewpoint, whatever
\* brief rows the viewpoints table holds.
C26_RoundtableNeedsThreeAnalysts ==
  /\ [](\A a \in Roundtabled(db) : HasAllAnalystViewpoints(db, a))
  /\ [][probe' # probe =>
          \A a \in Returned(probe'.output) :
            HasAllAnalystViewpoints(db, a) /\ a \notin Roundtabled(db)]_vars

(***************************************************************************)
(* Properties of the source list and of the entities of one article.       *)
(***************************************************************************)
\* the level a priority stands for: high above medium above low
PriorityLevel(priority) ==
  CASE priority = "high" -> 3
    [] priority = "medium" -> 2
    [] priority = "low" -> 1

\* C27: the sources an ingestion run loaded, which it fetches in this order,
\* are enabled sources, and none of them comes after a source of a lower
\* priority (high before medium before low).
C27_SourcesByPriority ==
  \A r \in Runs :
    \A k \in 1..Len(run[r].sources) :
      /\ db.sources[run[r].sources[k]].enabled
      /\ \A l \in 1..(k - 1) :
           PriorityLevel(db.sources[run[r].sources[l]].priority)
             >= PriorityLevel(db.sources[run[r].sources[k]].priority)

\* C28: the entity count of an article whose saveEntities call completed is
\* the number of distinct canonical entities the article is linked to: the
\* call received, and the count holds, each canonical organization and each
\* canonical technology once.
C28_DuplicatesCollapsed ==
  \A r \in Runs :
    (run[r].pc = "summarize" /\ run[r].answered = "json" /\ run[r].entitiesExtracted > 0)
      => run[r].entitiesExtracted = LinksOf(db, run[r].articleId)

(***************************************************************************)
(* Properties of failed persistence calls and of unknown personas.         *)
(***************************************************************************)
\* this step is stage 1 of run r, and saveArticle threw
SaveArticleThrew(r) == run[r].pc = "save" /\ run'[r].pc \in {"save", "store"}

\* this step is the extraction stage of run r: the call answered with JSON
\* and saveEntities threw
SaveEntitiesThrew(r) ==
  /\ run[r].pc = "extract" /\ run'[r].pc # "extract"
  /\ run'[r].answered = "json"
  /\ run'[r].warnings = run[r].warnings + 1

\* this step is the summary stage of run r, where every response of the
\* summary call is JSON, and saveSummary threw
SaveSummaryThrew(r) ==
  /\ run[r].pc = "summarize" /\ run'[r].pc # "summarize"
  /\ \A response \in IngestionEnv.summary : response.kind = "json"
  /\ run'[r].warnings = run[r].warnings + 1

\* C29: when saveArticle, saveEntities or saveSummary throws in an ingestion
\* run, the run counts one more error, leaves the remaining stages of the
\* article out (the article is not among the processed ones) and goes on
\* with the next article or, after the last one, with the end of the run.
C29_PersistenceFailureSkipsArticle ==
  [][\A r \in Runs :
       (SaveArticleThrew(r) \/ SaveEntitiesThrew(r) \/ SaveSummaryThrew(r)) =>
         /\ run'[r].errors = run[r].errors + 1
         /\ run'[r].processedArticles = run[r].processedArticles
         /\ run'[r].pc \in {"save", "store"}]_vars

\* the analyst the k-th selected article of run v is routed to is not among
\* the personas the run loaded, or has no prompt
UnknownAt(v, k) ==
  LET analystSlug == routeToAnalyst(vp[v].articles[k].topic_tags)
  IN \/ Analyst(db, vp[v].personas, analystSlug) = 0
     \/ analystSlug \notin ANALYST_PROMPTS

\* C30: a viewpoint run that met an article routed to an unknown persona
\* slug ends with success false, and has processed no article that comes
\* after that one in its selection.
C30_UnknownSlugAbortsRun ==
  \A v \in ViewpointRuns :
    vp[v].pc = "done" =>
      \A k \in 1..Len(vp[v].articles) :
        UnknownAt(v, k) =>
          /\ ~vp[v].result.success
          /\ \A l \in (k + 1)..Len(vp[v].articles) :
               vp[v].articles[l].id \notin ProcessedIds(v)

(***************************************************************************)
(* Properties of the order of the work in a run.                           *)
(***************************************************************************)
\* the model calls run r made
CallsOf(r) == { e \in BagToSet(trace) : e.path = "ingestion" /\ e.actor = r }

\* the candidates run r has passed to checkArticleExists
Checked(r) == Len(run[r].newArticles) + run[r].duplicatesSkipped

\* some article persisted when run r started has the URL or the content
\* of the call's article
KnownAtStart(r, e) ==
  \E a \in run[r].stored : a.url = e.url \/ a.contentHash = Md5(e.content)

\* C31: a run checks its candidates one by one, each once, and as long as it
\* has not checked them all it has saved no article and made no model call;
\* every model call it makes is for a candidate its filter kept, never for
\* one that was persisted already when the run started.
C31_FilterBeforeEnrichment ==
  \A r \in Runs :
    /\ (run[r].pc = "filter" /\ run[r].success) => Checked(r) = run[r].idx - 1
    /\ run[r].pc \in {"idle", "monitor", "filter"} =>
         /\ CallsOf(r) = {}
         /\ run[r].inserted = 0 /\ run[r].errors = 0
         /\ run[r].processedArticles = <<>>
    /\ run[r].pc \in {"save", "extract", "summarize", "store", "done"} =>
         Checked(r) = Len(run[r].articles)
    /\ \A e \in CallsOf(r) :
         /\ \E k \in 1..Len(run[r].newArticles) :
              run[r].newArticles[k].url = e.url /\ run[r].newArticles[k].content = e.content
         /\ ~KnownAtStart(r, e)

\* a run that skipped a duplicate and made model calls for the candidate it kept
C31_Witness ==
  \E r \in Runs :
    /\ run[r].pc = "done"
    /\ run[r].duplicatesSkipped >= 1
    /\ run[r].stored # {}
    /\ \E e \in CallsOf(r) : e.op = "extract"
    /\ \E e \in CallsOf(r) : e.op = "summarize"

(***************************************************************************)
(* Properties of convergence.                                              *)
(***************************************************************************)
\* every viewpoint call is answered with JSON and the datastore is up
GenerationSucceeds(env) ==
  /\ \A response \in env.viewpoint : response.kind = "json"
  /\ env.dbUp = {TRUE} /\ ~env.partial

\* C32, in the form a finite run refutes: where generation succeeds whenever
\* it is attempted, a viewpoint run that has ended leaves every article it
\* selected (summary scored 6 or more, no analyst viewpoint) with an analyst
\* viewpoint, whenever the run was triggered.
C32_SelectedArticleGetsViewpoint ==
  GenerationSucceeds(UnknownSlugEnv) =>
    \A v \in ViewpointRuns :
      vp[v].pc = "done" =>
        \A a \in Returned(vp[v].articles) : HasAnalystViewpoint(db, a)

(***************************************************************************)
(* Properties of the output personas.                                      *)
(***************************************************************************)
\* the persona rows of a slug
PersonaRows(d, slug) == { i \in 1..Len(d.personas) : d.personas[i].slug = slug }

\* the output persona slug of the brief round run v is in
RoundSlug(v) == OutputPersonaSlug(OutputSlugs[vp[v].slug])

\* this step is the persona insert of a brief round of run v
PersonaInsert(v) == vp[v].pc = "brief" /\ vp[v].stmt = 1 /\ vp'[v].stmt = 2

\* this step is the saveViewpoint of a brief round of run v
BriefSave(v) == vp[v].pc = "brief" /\ vp[v].stmt = 2 /\ vp'[v].stmt = 0

\* C33: however viewpoint runs overlap, each output persona slug has at most
\* one persona row; a persona row is added only by the persona insert of a
\* brief round, for the slug of that round; and every brief is stored under
\* the one row of its slug, one row per article and output persona.
C33_OneRowPerOutputPersona ==
  /\ [](/\ \A slug \in BriefSlugs : Cardinality(PersonaRows(db, slug)) <= 1
        /\ \A i, j \in 1..Len(db.viewpoints) :
             ( /\ db.viewpoints[i].articleId = db.viewpoints[j].articleId
               /\ db.personas[db.viewpoints[i].personaId].slug
                    = db.personas[db.viewpoints[j].personaId].slug ) => i = j)
  /\ [][/\ Len(db'.personas) > Len(db.personas) =>
            \E v \in ViewpointRuns :
              /\ PersonaInsert(v)
              /\ PersonaRows(db, RoundSlug(v)) = {}
              /\ db'.personas = Append(db.personas, [slug |-> RoundSlug(v), enabled |-> TRUE])
        /\ \A v \in ViewpointRuns : BriefSave(v) =>
              \E i \in 1..Len(db'.viewpoints) :
                /\ db'.viewpoints[i].articleId
                     = vp[v].processedArticles[vp[v].idx].articleId
                /\ PersonaRows(db', RoundSlug(v)) = {db'.viewpoints[i].personaId}]_vars

\* the select of one run found no row for an output persona, and another
\* run has inserted the row before the first run's insert
C33_Witness ==
  \E v \in ViewpointRuns :
    /\ vp[v].pc = "brief" /\ vp[v].stmt = 1
    /\ PersonaRows(db, RoundSlug(v)) # {}

(***************************************************************************)
(* Properties of saveArticle on a URL that is persisted.                   *)
(***************************************************************************)
\* this step is stage 1 of run r, and saveArticle returned
ArticleSaved(r) == run[r].pc = "save" /\ run'[r].pc = "extract"

Canonical(dict, name) ==
  IF Has(dict, trim(toLowerCase(name))) THEN Get(dict, trim(toLowerCase(name)))
  ELSE name

CanonicalNames(entities) == { entities[i].canonicalName : i \in DOMAIN entities }

Normalized(out, orgTable, techTable) ==
  /\ \A i \in DOMAIN probe.input.organizations :
       Canonical(orgTable, probe.input.organizations[i].name)
         \in CanonicalNames(out.organizations)
  /\ \A i \in DOMAIN probe.input.technologies :
       Canonical(techTable, probe.input.technologies[i].name)
         \in CanonicalNames(out.technologies)
  /\ \A name \in CanonicalNames(out.organizations) :
       \E i \in DOMAIN probe.input.organizations :
         name = Canonical(orgTable, probe.input.organizations[i].name)
  /\ \A name \in CanonicalNames(out.technologies) :
       \E i \in DOMAIN probe.input.technologies :
         name = Canonical(techTable, probe.input.technologies[i].name)
  /\ Len(out.people) = Len(probe.input.people)
  /\ \A i \in DOMAIN probe.input.people :
       out.people[i].organization =
         IF probe.input.people[i].organization = <<>> THEN <<>>
         ELSE Canonical(orgTable, probe.input.people[i].organization)

\* C35: once the workflow or the tool has normalized the extracted entities,
\* every organization and technology mention is in the output under the
\* canonical name of its lower-cased, trimmed name when the alias table has
\* that key and under its own name otherwise, the output holds no other name,
\* and every person is kept with the organization looked up in the same
\* organization table.
C35_NormalizationByAliasTable ==
  /\ "workflow" \in probe.applied
       => /\ Normalized(probe.output.workflow, ORGANIZATION_ALIASES, TECHNOLOGY_ALIASES)
          /\ Len(probe.output.workflow.organizations) = Len(probe.input.organizations)
          /\ Len(probe.output.workflow.technologies) = Len(probe.input.technologies)
  /\ "tool" \in probe.applied
       => Normalized(probe.output.tool, TOOL_ORGANIZATION_ALIASES, TOOL_TECHNOLOGY_ALIASES)

\* ---------------------------------------------------------------------------
\* C39
\* ---------------------------------------------------------------------------

PersonOrganizations(people) == [i \in DOMAIN people |-> people[i].organization]

TechVendors(technologies) ==
  { <<technologies[i].canonicalName, technologies[i].vendor>> : i \in DOMAIN technologies }

\* C39: once the workflow and the tool have both normalized the same extracted
\* entities, they name the same organizations and the same technologies, give
\* every person the same organization and every technology the same vendor.
C39_InlineAndToolAgree ==
  probe.applied = {"workflow", "tool"}
    => /\ CanonicalNames(probe.output.workflow.organizations)
            = CanonicalNames(probe.output.tool.organizations)
       /\ CanonicalNames(probe.output.workflow.technologies)
            = CanonicalNames(probe.output.tool.technologies)
       /\ PersonOrganizations(probe.output.workflow.people)
            = PersonOrganizations(probe.output.tool.people)
       /\ TechVendors(probe.output.workflow.technologies)
            = TechVendors(probe.output.tool.technologies)

\* ---------------------------------------------------------------------------
\* C36
\* ---------------------------------------------------------------------------

\* the entities handed to the saveEntities calls of run r that completed
RECURSIVE HandedOver(_, _)
HandedOver(events, history) ==
  IF events = {} THEN 0
  ELSE LET e == CHOOSE e \in events : TRUE
       IN e.entities * CopiesIn(e, history) + HandedOver(events \ {e}, history)

SavedEntities(r) ==
  HandedOver({ e \in BagToSet(trace) :
                 e.op = "saveEntities" /\ e.path = "ingestion" /\ e.actor = r }, trace)

\* the processed articles of run r that have a Summary row
WithSummary(r) ==
  { i \in DOMAIN run[r].processedArticles :
      SummaryId(db, run[r].processedArticles[i].articleId) # 0 }

\* C36: when an ingestion run has ended with its totals, the kept and the
\* skipped candidates add up to the fetched ones, the processed articles and
\* the errors add up to the kept ones, summariesGenerated is at most
\* articlesProcessed and is the number of processed articles that have a
\* Summary row, and entitiesExtracted is the number of entities handed to the
\* saveEntities calls of the run that completed.
C36_TotalsConsistent ==
  \A r \in Runs :
    run[r].pc = "done" =>
      /\ Len(run[r].newArticles) + run[r].duplicatesSkipped = Len(run[r].articles)
      /\ run[r].result.articlesProcessed + run[r].result.errors = Len(run[r].newArticles)
      /\ run[r].result.summariesGenerated <= run[r].result.articlesProcessed
      /\ run[r].result.summariesGenerated = Cardinality(WithSummary(r))
      /\ run[r].result.entitiesExtracted = SavedEntities(r)

\* ---------------------------------------------------------------------------
\* C37
\* ---------------------------------------------------------------------------

\* every entity of e is stored and linked to the article
AllLinked(d, articleId, e) ==
  /\ \A i \in DOMAIN e.organizations :
       \E l \in DOMAIN d.article_organizations :
         /\ d.article_organizations[l].articleId = articleId
         /\ d.article_organizations[l].entityId # 0
         /\ d.article_organizations[l].entityId
              = OrganizationId(d, e.organizations[i].canonicalName)
  /\ \A i \in DOMAIN e.people :
       \E l \in DOMAIN d.article_people :
         /\ d.article_people[l].articleId = articleId
         /\ d.article_people[l].entityId \in DOMAIN d.people
         /\ d.people[d.article_people[l].entityId].name = e.people[i].name
  /\ \A i \in DOMAIN e.technologies :
       \E l \in DOMAIN d.article_technologies :
         /\ d.article_technologies[l].articleId = articleId
         /\ d.article_technologies[l].entityId # 0
         /\ d.article_technologies[l].entityId
              = TechnologyId(d, e.technologies[i].canonicalName)

SummarizedHasSummary(d) ==
  \A articleId \in DOMAIN d.articles :
    d.articles[articleId].status = "summarized" => SummaryId(d, articleId) # 0

BecomesExtracted(articleId) ==
  /\ articleId \in DOMAIN db.articles
  /\ db.articles[articleId].status # "extracted"
  /\ db'.articles[articleId].status = "extracted"

\* C37: in every state an article with status summarized has a Summary row,
\* and a step that turns an article's status to extracted is a saveEntities
\* call for that article that ran to its end, after which every organization,
\* person and technology handed to it is stored and linked to the article.
C37_StatusFollowsData ==
  /\ []SummarizedHasSummary(db)
  /\ [][\A articleId \in DOMAIN db.articles :
          BecomesExtracted(articleId)
            => /\ call'.last[1] = "saveEntities"
               /\ call'.last[2] = articleId
               /\ AllLinked(db', articleId, call'.last[3])]_vars

\* ---------------------------------------------------------------------------
\* C38
\* ---------------------------------------------------------------------------

\* the articles that have an analyst viewpoint
ViewpointedIds(d) == { a \in DOMAIN d.articles : HasAnalystViewpoint(d, a) }

\* C38: when a viewpoint run has ended in which no generation and no write
\* failed, every article that has an analyst viewpoint (from this run or from
\* an earlier one) has a brief of each of the four output personas: what an
\* earlier run failed to brief, this run has briefed.
C38_LaterRunCompletesBriefs ==
  \A v \in ViewpointRuns :
    (vp[v].pc = "done" /\ vp[v].errors = 0)
      => \A a \in ViewpointedIds(db), slug \in BriefSlugs : HasBrief(db, a, slug)

\* ---------------------------------------------------------------------------
\* C40
\* ---------------------------------------------------------------------------

\* how far a run has come: its step, the item of the step's loop, the stage
\* of the item and the statement of the stage
IngestionProgress(rec) ==
  << CASE rec.pc = "idle" -> 0
       [] rec.pc = "monitor" -> 1
       [] rec.pc = "filter" -> 2
       [] rec.pc \in {"save", "extract", "entities", "summarize", "status"} -> 3
       [] rec.pc = "store" -> 4
       [] rec.pc \in {"done", "failed"} -> 5,
     rec.idx,
     CASE rec.pc = "extract" -> 1
       [] rec.pc = "entities" -> 2
       [] rec.pc = "summarize" -> 3
       [] rec.pc = "status" -> 4
       [] OTHER -> 0,
     rec.stmt >>

ViewpointProgress(rec) ==
  << CASE rec.pc = "idle" -> 0
       [] rec.pc = "generate" -> 1
       [] rec.pc = "brief" -> 2
       [] rec.pc = "log" -> 3
       [] rec.pc \in {"done", "failed"} -> 4,
     rec.idx, rec.slug, rec.stmt >>

Before(a, b) ==
  \E k \in 1..4 : a[k] < b[k] /\ \A j \in 1..(k - 1) : a[j] = b[j]

WithinCaps ==
  /\ \A r \in Runs :
       /\ Len(run[r].articles) <= FetchCap * Len(run[r].sources)
       /\ run[r].idx <= Len(run[r].articles) + 1
  /\ \A v \in ViewpointRuns :
       /\ Len(vp[v].articles) <= ViewpointQueryLimit
       /\ vp[v].idx <= Len(vp[v].articles) + 1
       /\ vp[v].briefsGenerated <= 4 * Len(vp[v].processedArticles)

\* a step of a run moves it forward, and ends it only from its logging step
IngestionStep(r) ==
  run'[r] # run[r] =>
    /\ Before(IngestionProgress(run[r]), IngestionProgress(run'[r]))
    /\ run'[r].pc \in {"done", "failed"} => run[r].pc = "store"

ViewpointStep(v) ==
  (vp'[v] # vp[v] /\ vp'[v].pc # "idle") =>
    /\ Before(ViewpointProgress(vp[v]), ViewpointProgress(vp'[v]))
    /\ vp'[v].pc \in {"done", "failed"} => vp[v].pc = "log"

\* C40: an ingestion run holds at most 10 candidates per source and a
\* viewpoint run at most 20 articles and 4 briefs per viewpointed article;
\* every step of a run moves it forward through its steps, items and stages,
\* so no item is attempted twice and the run ends; and a run ends only from
\* its final logging step.
C40_RunsEndThroughLogging ==
  /\ []WithinCaps
  /\ [][(\A r \in Runs : IngestionStep(r))
          /\ (\A v \in ViewpointRuns : ViewpointStep(v))]_vars
====
